---------------------------- MODULE Spec2Model ----------------------------
(***************************************************************************)
(* Wikipedia event discovery and classification engine (lib/wikipedia.ts)  *)
(* and its caller handleWorldFetch (components/MapGlobe.tsx).              *)
(*                                                                         *)
(* Texts are sequences of one-character strings, so that String.includes,  *)
(* indexOf, toLowerCase and the regular expressions of the source are      *)
(* modelled character by character.                                        *)
(***************************************************************************)
EXTENDS Integers, Sequences, FiniteSets, TLC

(***************************************************************************)
(* Strings                                                                 *)
(***************************************************************************)

\* The characters String.prototype.toLowerCase changes, among those the
\* texts of the model are written in, and their images.
UpperChars ==
    <<"A","B","C","D","E","F","G","H","I","J","K","L","M","N","O","P","Q","R",
      "S","T","U","V","W","X","Y","Z","É","È","Ê","À","Â","Î","Ô","Û","Ç">>

LowerChars ==
    <<"a","b","c","d","e","f","g","h","i","j","k","l","m","n","o","p","q","r",
      "s","t","u","v","w","x","y","z","é","è","ê","à","â","î","ô","û","ç">>

LowerMap ==
    [c \in {UpperChars[i] : i \in 1..Len(UpperChars)} |->
        LowerChars[CHOOSE i \in 1..Len(UpperChars) : UpperChars[i] = c]]

toLowerChar(c) == IF c \in DOMAIN LowerMap THEN LowerMap[c] ELSE c

\* the function f on 1..n, as the tuple of its values
ToArray(f) == SubSeq(f, 1, Len(f))

\* String.prototype.toLowerCase
toLowerCase(t) == ToArray([i \in 1..Len(t) |-> toLowerChar(t[i])])

\* the least element of the set S of positive integers, 0 when S is empty
MinOr0(S) == IF S = {} THEN 0 ELSE CHOOSE p \in S : \A q \in S : p <= q

\* the greatest element of the set S of positive integers, 0 when S is empty
MaxOr0(S) == IF S = {} THEN 0 ELSE CHOOSE p \in S : \A q \in S : q <= p

DigitChars == <<"0","1","2","3","4","5","6","7","8","9">>

\* \d of a JavaScript regular expression
IsDigit(c) == c \in {"0","1","2","3","4","5","6","7","8","9"}

DigitVal(c) == (CHOOSE d \in 1..10 : DigitChars[d] = c) - 1

\* \w of a JavaScript regular expression without the u flag: [A-Za-z0-9_].
\* An accented letter is not a word character.
AsciiLetters ==
    {"a","b","c","d","e","f","g","h","i","j","k","l","m","n","o","p","q","r",
     "s","t","u","v","w","x","y","z",
     "A","B","C","D","E","F","G","H","I","J","K","L","M","N","O","P","Q","R",
     "S","T","U","V","W","X","Y","Z"}

IsWordChar(c) == c \in AsciiLetters \/ IsDigit(c) \/ c = "_"

\* \s of a JavaScript regular expression (the white space the texts use)
IsSpace(c) == c \in {" ", "\t", "\n"}

\* \b at position p (between t[p-1] and t[p]), 1 <= p <= Len(t)+1
WordBoundary(t, p) ==
    (p > 1 /\ IsWordChar(t[p - 1])) # (p <= Len(t) /\ IsWordChar(t[p]))

\* t has the characters of k at positions p .. p+Len(k)-1
MatchAt(t, k, p) ==
    /\ p >= 1
    /\ p + Len(k) - 1 <= Len(t)
    /\ \A j \in 1..Len(k) : t[p + j - 1] = k[j]

\* the same, ignoring case (the i flag); k is written in lower case
MatchAtI(t, k, p) ==
    /\ p >= 1
    /\ p + Len(k) - 1 <= Len(t)
    /\ \A j \in 1..Len(k) : toLowerChar(t[p + j - 1]) = k[j]

\* String.prototype.includes
Includes(t, k) == \E p \in 1..(Len(t) - Len(k) + 1) : MatchAt(t, k, p)

\* String.prototype.indexOf(k, from), positions counted from 1; 0 when absent
IndexOf(t, k, from) ==
    MinOr0({p \in from..(Len(t) - Len(k) + 1) : MatchAt(t, k, p)})

\* parseInt(digits, 10) and Number(digits) of a string of decimal digits
RECURSIVE parseInt(_)
parseInt(t) ==
    IF t = <<>> THEN 0
    ELSE 10 * parseInt(SubSeq(t, 1, Len(t) - 1)) + DigitVal(t[Len(t)])

\* String(n) of an integer n >= 0
RECURSIVE NatToText(_)
NatToText(n) ==
    IF n < 10 THEN <<DigitChars[n + 1]>>
    ELSE NatToText(n \div 10) \o <<DigitChars[(n % 10) + 1]>>

\* the first position >= p of t that holds no white space (\s* is greedy)
RECURSIVE SkipSpaces(_, _)
SkipSpaces(t, p) ==
    IF p <= Len(t) /\ IsSpace(t[p]) THEN SkipSpaces(t, p + 1) ELSE p

\* an optional character of a pattern (c?), ignoring case
SkipOpt(t, p, c) == IF p <= Len(t) /\ toLowerChar(t[p]) = c THEN p + 1 ELSE p

\* ks.filter((k) => full.includes(k)).length
CountHits(full, ks) == Cardinality({i \in 1..Len(ks) : Includes(full, ks[i])})

\* Array.prototype.some((k) => full.includes(k))
SomeIncluded(full, ks) == \E i \in 1..Len(ks) : Includes(full, ks[i])

\* Math.round(n / d) for d > 0: the nearest integer, halves towards +infinity
RoundDiv(n, d) == (2 * n + d) \div (2 * d)

(***************************************************************************)
(* Lexicon (wikipedia.ts:19-95)                                            *)
(***************************************************************************)

SHOCK_KW ==
    << <<"m","a","s","s","a","c","r","e">>,   \* massacre
       <<"e","x","é","c","u","t","i","o","n">>,   \* exécution
       <<"p","o","g","r","o","m">>,   \* pogrom
       <<"r","a","f","l","e">>,   \* rafle
       <<"g","é","n","o","c","i","d","e">>,   \* génocide
       <<"a","t","t","e","n","t","a","t">>,   \* attentat
       <<"a","s","s","a","s","s","i","n","a","t">>,   \* assassinat
       <<"t","o","r","t","u","r","e">>,   \* torture
       <<"d","é","p","o","r","t","a","t","i","o","n">>,   \* déportation
       <<"p","e","r","s","é","c","u","t","i","o","n">>,   \* persécution
       <<"e","s","c","l","a","v","a","g","e">>,   \* esclavage
       <<"b","o","m","b","a","r","d","e","m","e","n","t">>,   \* bombardement
       <<"e","x","t","e","r","m","i","n","a","t","i","o","n">>,   \* extermination
       <<"f","u","s","i","l","l","a","d","e">>,   \* fusillade
       <<"n","o","y","a","d","e">> >>   \* noyade

SHOCK_VERBS ==
    << <<"a","s","s","a","s","s","i","n">>,   \* assassin
       <<"e","x","é","c","u","t">>,   \* exécut
       <<"m","a","s","s","a","c","r">>,   \* massacr
       <<"f","u","s","i","l","l">>,   \* fusill
       <<"p","e","n","d","u">>,   \* pendu
       <<"n","o","y","é">>,   \* noyé
       <<"b","r","û","l","é">>,   \* brûlé
       <<"t","o","r","t","u","r">>,   \* tortur
       <<"d","é","p","o","r","t">>,   \* déport
       <<"e","x","t","e","r","m","i","n">> >>   \* extermin

MEMORIAL_KW ==
    << <<"c","a","m","p"," ","d","e"," ","c","o","n","c","e","n","t","r","a","t","i","o","n">>,   \* camp de concentration
       <<"c","a","m","p"," ","d","'","e","x","t","e","r","m","i","n","a","t","i","o","n">>,   \* camp d'extermination
       <<"c","a","m","p"," ","d","e"," ","l","a"," ","m","o","r","t">>,   \* camp de la mort
       <<"d","é","p","o","r","t","a","t","i","o","n">>,   \* déportation
       <<"e","x","t","e","r","m","i","n","a","t","i","o","n">>,   \* extermination
       <<"g","o","u","l","a","g">>,   \* goulag
       <<"c","h","a","r","n","i","e","r">>,   \* charnier
       <<"c","h","a","m","b","r","e"," ","à"," ","g","a","z">>,   \* chambre à gaz
       <<"s","h","o","a","h">>,   \* shoah
       <<"h","o","l","o","c","a","u","s","t","e">>,   \* holocauste
       <<"s","o","l","u","t","i","o","n"," ","f","i","n","a","l","e">> >>   \* solution finale

CIVILIZATION_KW ==
    << <<"e","m","p","i","r","e">>,   \* empire
       <<"t","r","a","i","t","é">>,   \* traité
       <<"d","y","n","a","s","t","i","e">>,   \* dynastie
       <<"f","o","n","d","a","t","i","o","n">>,   \* fondation
       <<"c","o","u","r","o","n","n","e","m","e","n","t">>,   \* couronnement
       <<"p","r","o","c","l","a","m","a","t","i","o","n">>,   \* proclamation
       <<"c","o","n","s","t","i","t","u","t","i","o","n">>,   \* constitution
       <<"c","a","t","h","é","d","r","a","l","e">>,   \* cathédrale
       <<"p","a","l","a","i","s">>,   \* palais
       <<"f","o","r","t","e","r","e","s","s","e">>,   \* forteresse
       <<"a","n","t","i","q","u","i","t","é">>,   \* antiquité
       <<"r","o","m","a","i","n">>,   \* romain
       <<"p","h","a","r","a","o","n">>,   \* pharaon
       <<"c","i","v","i","l","i","s","a","t","i","o","n">>,   \* civilisation
       <<"r","o","y","a","u","m","e">>,   \* royaume
       <<"s","i","g","n","a","t","u","r","e">>,   \* signature
       <<"a","l","l","i","a","n","c","e">>,   \* alliance
       <<"a","r","m","i","s","t","i","c","e">>,   \* armistice
       <<"c","a","p","i","t","u","l","a","t","i","o","n">> >>   \* capitulation

STRUGGLE_KW ==
    << <<"g","r","è","v","e">>,   \* grève
       <<"m","a","n","i","f","e","s","t","a","t","i","o","n">>,   \* manifestation
       <<"r","é","s","i","s","t","a","n","c","e">>,   \* résistance
       <<"i","n","s","u","r","r","e","c","t","i","o","n">>,   \* insurrection
       <<"r","é","v","o","l","t","e">>,   \* révolte
       <<"r","é","v","o","l","u","t","i","o","n">>,   \* révolution
       <<"b","a","r","r","i","c","a","d","e">>,   \* barricade
       <<"s","o","u","l","è","v","e","m","e","n","t">>,   \* soulèvement
       <<"d","r","o","i","t","s"," ","c","i","v","i","q","u","e","s">>,   \* droits civiques
       <<"é","m","a","n","c","i","p","a","t","i","o","n">>,   \* émancipation
       <<"l","i","b","é","r","a","t","i","o","n">>,   \* libération
       <<"i","n","d","é","p","e","n","d","a","n","c","e">>,   \* indépendance
       <<"r","é","p","r","e","s","s","i","o","n">>,   \* répression
       <<"c","e","n","s","u","r","e">>,   \* censure
       <<"s","é","g","r","é","g","a","t","i","o","n">>,   \* ségrégation
       <<"o","c","c","u","l","t","é">>,   \* occulté
       <<"b","a","v","u","r","e">>,   \* bavure
       <<"c","o","l","o","n","i","s","a","t","i","o","n">> >>   \* colonisation

ORIGINS_KW ==
    << <<"a","r","c","h","é","o","l","o","g","i","e">>,   \* archéologie
       <<"p","r","é","h","i","s","t","o","i","r","e">>,   \* préhistoire
       <<"n","é","o","l","i","t","h","i","q","u","e">>,   \* néolithique
       <<"p","a","l","é","o","l","i","t","h","i","q","u","e">>,   \* paléolithique
       <<"m","i","g","r","a","t","i","o","n">>,   \* migration
       <<"m","é","g","a","l","i","t","h","e">>,   \* mégalithe
       <<"g","r","o","t","t","e">>,   \* grotte
       <<"f","o","s","s","i","l","e">>,   \* fossile
       <<"s","é","p","u","l","t","u","r","e">>,   \* sépulture
       <<"d","o","l","m","e","n">>,   \* dolmen
       <<"m","e","n","h","i","r">>,   \* menhir
       <<"c","i","t","é"," ","a","n","t","i","q","u","e">>,   \* cité antique
       <<"r","u","i","n","e","s">>,   \* ruines
       <<"v","e","s","t","i","g","e">>,   \* vestige
       <<"â","g","e"," ","d","u"," ","b","r","o","n","z","e">>,   \* âge du bronze
       <<"â","g","e"," ","d","u"," ","f","e","r">> >>   \* âge du fer

IMPACT_KW ==
    << <<"v","i","c","t","i","m","e","s">>,   \* victimes
       <<"m","o","r","t","s">>,   \* morts
       <<"t","u","é","s">>,   \* tués
       <<"b","l","e","s","s","é","s">>,   \* blessés
       <<"d","i","s","p","a","r","u","s">>,   \* disparus
       <<"f","u","s","i","l","l","é","s">>,   \* fusillés
       <<"p","e","n","d","u","s">>,   \* pendus
       <<"n","o","y","é","s">>,   \* noyés
       <<"b","r","û","l","é","s">>,   \* brûlés
       <<"d","é","t","e","n","u","s">>,   \* détenus
       <<"p","r","i","s","o","n","n","i","e","r","s">> >>   \* prisonniers

ALL_VERBS ==
    << <<"a","s","s","a","s","s","i","n">>,   \* assassin
       <<"p","r","o","c","l","a","m">>,   \* proclam
       <<"e","n","v","a","h","i">>,   \* envahi
       <<"s","i","g","n">>,   \* sign
       <<"d","é","c","o","u","v","r">>,   \* découvr
       <<"s","o","u","l","e","v">>,   \* soulev
       <<"c","o","n","q","u","i">>,   \* conqui
       <<"d","é","t","r","u">>,   \* détru
       <<"i","n","c","e","n","d","i">>,   \* incendi
       <<"b","o","m","b","a","r","d">>,   \* bombard
       <<"l","i","b","é","r">>,   \* libér
       <<"o","c","c","u","p">>,   \* occup
       <<"e","x","é","c","u","t">>,   \* exécut
       <<"m","a","s","s","a","c","r">>,   \* massacr
       <<"f","u","s","i","l","l">>,   \* fusill
       <<"d","é","p","o","r","t">>,   \* déport
       <<"r","e","s","i","s","t">>,   \* resist
       <<"r","e","v","o","l","t">>,   \* revolt
       <<"f","o","n","d">>,   \* fond
       <<"c","o","n","s","t","r","u">>,   \* constru
       <<"é","r","i","g">>,   \* érig
       <<"b","â","t","i">> >>   \* bâti

GEO_PENALTIES ==
    << <<"c","o","m","m","u","n","e"," ","d","e">>,   \* commune de
       <<"c","o","d","e"," ","p","o","s","t","a","l">>,   \* code postal
       <<"m","o","n","t","a","g","n","e">>,   \* montagne
       <<"s","o","m","m","e","t">>,   \* sommet
       <<"f","l","e","u","v","e">>,   \* fleuve
       <<"a","l","t","i","t","u","d","e">>,   \* altitude
       <<"k","m","²">>,   \* km²
       <<"r","i","v","i","è","r","e">>,   \* rivière
       <<"a","f","f","l","u","e","n","t">>,   \* affluent
       <<"b","a","s","s","i","n"," ","v","e","r","s","a","n","t">>,   \* bassin versant
       <<"d","é","p","a","r","t","e","m","e","n","t">>,   \* département
       <<"a","r","r","o","n","d","i","s","s","e","m","e","n","t">>,   \* arrondissement
       <<"c","a","n","t","o","n"," ","d","e">>,   \* canton de
       <<"i","n","t","e","r","c","o","m","m","u","n","a","l","i","t","é">> >>   \* intercommunalité

CHURCH_WORDS ==
    << <<"é","g","l","i","s","e">>,   \* église
       <<"p","a","r","o","i","s","s","e">>,   \* paroisse
       <<"é","d","i","f","i","c","e">>,   \* édifice
       <<"c","h","a","p","e","l","l","e">> >>   \* chapelle

SPORT_BLACKLIST ==
    << <<"f","o","o","t","b","a","l","l">>,   \* football
       <<"s","t","a","d","e">>,   \* stade
       <<"m","a","t","c","h">>,   \* match
       <<"o","l","y","m","p","i","q","u","e">>,   \* olympique
       <<"c","l","u","b"," ","s","p","o","r","t","i","f">>,   \* club sportif
       <<"c","h","a","m","p","i","o","n","n","a","t">>,   \* championnat
       <<"l","i","g","u","e">>,   \* ligue
       <<"c","o","u","p","e"," ","d","u"," ","m","o","n","d","e">>,   \* coupe du monde
       <<"r","u","g","b","y">>,   \* rugby
       <<"t","e","n","n","i","s">>,   \* tennis
       <<"n","a","t","a","t","i","o","n">>,   \* natation
       <<"a","t","h","l","é","t","i","s","m","e">>,   \* athlétisme
       <<"g","y","m","n","a","s","e">> >>   \* gymnase

SPORT_EXCEPTIONS ==
    << <<"e","x","é","c","u","t","i","o","n">>,   \* exécution
       <<"p","r","i","s","o","n","n","i","e","r">>,   \* prisonnier
       <<"d","é","t","e","n","u">>,   \* détenu
       <<"m","a","s","s","a","c","r","e">>,   \* massacre
       <<"i","n","t","e","r","n","e","m","e","n","t">>,   \* internement
       <<"d","é","p","o","r","t","a","t","i","o","n">>,   \* déportation
       <<"c","a","m","p">>,   \* camp
       <<"f","u","s","i","l","l","a","d","e">>,   \* fusillade
       <<"m","é","m","o","r","i","a","l">> >>   \* mémorial

KEYWORD_SEARCHES ==
    << <<"m","a","s","s","a","c","r","e">>,   \* massacre
       <<"p","o","g","r","o","m">>,   \* pogrom
       <<"r","é","v","o","l","t","e">>,   \* révolte
       <<"i","n","s","u","r","r","e","c","t","i","o","n">>,   \* insurrection
       <<"b","o","m","b","a","r","d","e","m","e","n","t">>,   \* bombardement
       <<"l","i","b","é","r","a","t","i","o","n">>,   \* libération
       <<"t","r","a","i","t","é">>,   \* traité
       <<"c","a","m","p"," ","d","e"," ","c","o","n","c","e","n","t","r","a","t","i","o","n">> >>   \* camp de concentration
(***************************************************************************)
(* Dates (wikipedia.ts:144-204)                                            *)
(*                                                                         *)
(* A value of type number | null is <<>> for null and <<n>> for n.         *)
(***************************************************************************)

Null == <<>>

Some(n) == <<n>>

\* ROMAN_TO_NUM: the numeral of index n stands for n
ROMAN_TO_NUM ==
    << <<"I">>, <<"I","I">>, <<"I","I","I">>, <<"I","V">>, <<"V">>,
       <<"V","I">>, <<"V","I","I">>, <<"V","I","I","I">>, <<"I","X">>, <<"X">>,
       <<"X","I">>, <<"X","I","I">>, <<"X","I","I","I">>, <<"X","I","V">>,
       <<"X","V">>, <<"X","V","I">>, <<"X","V","I","I">>,
       <<"X","V","I","I","I">>, <<"X","I","X">>, <<"X","X">>,
       <<"X","X","I">> >>

\* String.prototype.toUpperCase on the letters of a Roman numeral
toUpperRoman(g) ==
    ToArray([i \in 1..Len(g) |->
                CASE toLowerChar(g[i]) = "x" -> "X"
                  [] toLowerChar(g[i]) = "i" -> "I"
                  [] toLowerChar(g[i]) = "v" -> "V"
                  [] OTHER -> g[i]])

\* ROMAN_TO_NUM[g.toUpperCase()]: 0 stands for undefined
RomanLookup(g) ==
    MinOr0({n \in 1..Len(ROMAN_TO_NUM) : ROMAN_TO_NUM[n] = toUpperRoman(g)})

\* J\.?-?C matches at p
BcJC(t, p) ==
    /\ MatchAtI(t, <<"j">>, p)
    /\ MatchAtI(t, <<"c">>, SkipOpt(t, SkipOpt(t, p + 1, "."), "-"))

\* (?:ant)?\.?\s*J\.?-?C matches at p
BcAnt(t, p) ==
    BcJC(t, SkipSpaces(t, SkipOpt(t, IF MatchAtI(t, <<"a","n","t">>, p)
                                     THEN p + 3 ELSE p, ".")))

\* av(?:ant)?\.?\s*J\.?-?C matches at p
BcAv(t, p) == MatchAtI(t, <<"a","v">>, p) /\ BcAnt(t, p + 2)

\* the tail \s*av(?:ant)?\.?\s*J\.?-?C of the BCE pattern matches at p
BcTail(t, p) == BcAv(t, SkipSpaces(t, p))

\* the length of the group (\d{1,4}) when the BCE pattern matches at s
\* (the longest that lets the rest match), 0 when it does not match there
BcLen(t, s) ==
    MaxOr0({d \in 1..4 :
              /\ s + d - 1 <= Len(t)
              /\ \A j \in 0..(d - 1) : IsDigit(t[s + j])
              /\ BcTail(t, s + d)})

\* the length of the run of the letters X, I, V (either case) from s
RECURSIVE RomanRun(_, _)
RomanRun(t, s) ==
    IF s <= Len(t) /\ toLowerChar(t[s]) \in {"x", "i", "v"}
    THEN 1 + RomanRun(t, s + 1) ELSE 0

\* the number of x the group X{0,3} takes at the head of l
LeadingX(l) ==
    IF Len(l) >= 3 /\ SubSeq(l, 1, 3) = <<"x","x","x">> THEN 3
    ELSE IF Len(l) >= 2 /\ SubSeq(l, 1, 2) = <<"x","x">> THEN 2
    ELSE IF Len(l) >= 1 /\ l[1] = "x" THEN 1 ELSE 0

\* l, in lower case, is a word of X{0,3}(?:IX|IV|V?I{0,3})
IsRomanLower(l) ==
    SubSeq(l, LeadingX(l) + 1, Len(l)) \in
        { <<>>, <<"i">>, <<"i","i">>, <<"i","i","i">>, <<"i","v">>,
          <<"v">>, <<"v","i">>, <<"v","i","i">>, <<"v","i","i","i">>,
          <<"i","x">> }

\* g is a word of X{0,3}(?:IX|IV|V?I{0,3}), ignoring case
IsRomanGroup(g) == IsRomanLower(toLowerCase(g))

Siecle == <<"s","i","è","c","l","e">>

\* siècle matches at p, and with bc siècle\s*av does
SiecleAt(t, p, bc) ==
    /\ MatchAtI(t, Siecle, p)
    /\ bc => MatchAtI(t, <<"a","v">>, SkipSpaces(t, p + Len(Siecle)))

\* the Roman century pattern matches at s with the group t[s..k-1]
RomanCenturyGroup(t, s, k, bc) ==
    /\ IsRomanGroup(SubSeq(t, s, k - 1))
    /\ MatchAtI(t, <<"e">>, k)
    /\ SiecleAt(t, SkipSpaces(t, k + 1), bc)

\* /\b(X{0,3}(?:IX|IV|V?I{0,3}))e\s*siècle/i matches at s, and with bc
\* /\b(X{0,3}(?:IX|IV|V?I{0,3}))e\s*siècle\s*av/i does
RomanCenturyAt(t, s, bc) ==
    WordBoundary(t, s) /\ RomanCenturyGroup(t, s, s + RomanRun(t, s), bc)

\* the run of Roman letters of t from s, as <<group>>; Null when s = 0
RomanGroupAt(t, s) ==
    IF s = 0 THEN Null ELSE Some(SubSeq(t, s, s + RomanRun(t, s) - 1))

\* the group of the first match of the Roman century pattern, as <<group>>,
\* or Null when the pattern matches nowhere
RomanCenturyMatch(t, bc) ==
    RomanGroupAt(t, MinOr0({s \in 1..Len(t) : RomanCenturyAt(t, s, bc)}))

\* the length of the run of digits from s
RECURSIVE DigitRun(_, _)
DigitRun(t, s) ==
    IF s <= Len(t) /\ IsDigit(t[s]) THEN 1 + DigitRun(t, s + 1) ELSE 0

\* (?:e|ème)\s*siècle matches at k
OrdinalSiecleAt(t, k) ==
    \/ MatchAtI(t, <<"e">>, k) /\ MatchAtI(t, Siecle, SkipSpaces(t, k + 1))
    \/ MatchAtI(t, <<"è","m","e">>, k) /\ MatchAtI(t, Siecle, SkipSpaces(t, k + 3))

\* /\b(\d{1,2})(?:e|ème)\s*siècle/i matches at s
NumCenturyAt(t, s) ==
    /\ WordBoundary(t, s)
    /\ DigitRun(t, s) \in {1, 2}
    /\ OrdinalSiecleAt(t, s + DigitRun(t, s))

\* parseInt of the run of digits of t from s, as <<n>>; Null when s = 0
NumberAt(t, s) ==
    IF s = 0 THEN Null ELSE Some(parseInt(SubSeq(t, s, s + DigitRun(t, s) - 1)))

\* parseInt of the group of the first match of the Arabic century pattern,
\* as <<n>>, or Null
NumCenturyMatch(t) ==
    NumberAt(t, MinOr0({s \in 1..Len(t) : NumCenturyAt(t, s)}))

\* lines 170-186, for the matches of the three patterns
CenturyYear(bcRomanMatch, romanMatch, numMatch) ==
    IF bcRomanMatch # Null /\ RomanLookup(bcRomanMatch[1]) # 0
    THEN Some(-(RomanLookup(bcRomanMatch[1]) * 100 - 50))
    ELSE IF romanMatch # Null /\ RomanLookup(romanMatch[1]) # 0
    THEN Some(RomanLookup(romanMatch[1]) * 100 - 50)
    ELSE IF numMatch # Null /\ numMatch[1] >= 1 /\ numMatch[1] <= 21
    THEN Some(numMatch[1] * 100 - 50)
    ELSE Null

extractCenturyYear(text) ==
    CenturyYear(RomanCenturyMatch(text, TRUE), RomanCenturyMatch(text, FALSE),
                NumCenturyMatch(text))

\* the numbers text.match(/\b(\d{3,4})\b/g) yields, as a set
YearNumbers(text) ==
    {parseInt(SubSeq(text, s, s + DigitRun(text, s) - 1)) :
        s \in {q \in 1..Len(text) :
                 /\ WordBoundary(text, q)
                 /\ DigitRun(text, q) \in {3, 4}
                 /\ WordBoundary(text, q + DigitRun(text, q))}}

\* YearOf with the years of 3 or 4 digits tested before the BCE pattern
YearOfYearsFirst(text, s0, years) ==
    IF years # {}
    THEN Some(MinOr0(years))
    ELSE IF s0 # 0
    THEN Some(-parseInt(SubSeq(text, s0, s0 + BcLen(text, s0) - 1)))
    ELSE extractCenturyYear(text)

\* lines 153-164, for the start s0 of the first match of the BCE pattern
\* (0 when there is none) and the set years of the numbers of 3 or 4 digits
\* between 100 and 2025
YearOf(text, s0, years) ==
    IF s0 # 0
    THEN Some(-parseInt(SubSeq(text, s0, s0 + BcLen(text, s0) - 1)))
    ELSE IF years # {}
    THEN Some(MinOr0(years))
    ELSE extractCenturyYear(text)

extractYear(text) ==
    YearOf(text, MinOr0({s \in 1..Len(text) : BcLen(text, s) > 0}),
           {y \in YearNumbers(text) : y >= 100 /\ y <= 2025})

\* lines 190-203, for the matches of the three patterns
CenturyLabel(bcRomanMatch, romanMatch, numMatch) ==
    IF bcRomanMatch # Null
    THEN Some(bcRomanMatch[1] \o <<"e"," ","a","v","."," ","J",".","-","C",".">>)
    ELSE IF romanMatch # Null
    THEN Some(romanMatch[1] \o <<"e">>)
    ELSE IF numMatch # Null
    THEN Some((IF numMatch[1] \in 1..Len(ROMAN_TO_NUM)
               THEN ROMAN_TO_NUM[numMatch[1]]
               ELSE NatToText(numMatch[1])) \o <<"e">>)
    ELSE Null

formatCenturyLabel(text) ==
    CenturyLabel(RomanCenturyMatch(text, TRUE), RomanCenturyMatch(text, FALSE),
                 NumCenturyMatch(text))

(***************************************************************************)
(* Scoring and classification (wikipedia.ts:210-339)                       *)
(***************************************************************************)

hasVerb(text) == SomeIncluded(toLowerCase(text), ALL_VERBS)

\* the occurrences of w in tl from position idx on, each search resuming
\* after the previous occurrence; at is the position indexOf gave
RECURSIVE CountFrom(_, _, _)
CountNext(tl, w, at) == IF at = 0 THEN 0 ELSE 1 + CountFrom(tl, w, at + Len(w))

CountFrom(tl, w, idx) == CountNext(tl, w, IndexOf(tl, w, idx))

RECURSIVE CountWords(_, _)
CountWords(tl, words) ==
    IF words = <<>> THEN 0
    ELSE CountFrom(tl, Head(words), 1) + CountWords(tl, Tail(words))

countOccurrences(text, words) == CountWords(toLowerCase(text), words)

\* CategoryScores with the former weight 15 of the origins keywords
CategoryScoresOrigins15(full) ==
    << [cat |-> "shock",
        s   |-> CountHits(full, SHOCK_KW) * 25 + CountHits(full, SHOCK_VERBS) * 20],
       [cat |-> "civilization", s |-> CountHits(full, CIVILIZATION_KW) * 12],
       [cat |-> "struggle",     s |-> CountHits(full, STRUGGLE_KW) * 20],
       [cat |-> "origins",      s |-> CountHits(full, ORIGINS_KW) * 15] >>

\* the four weighted counts, in the order the source lists them
CategoryScores(full) ==
    << [cat |-> "shock",
        s   |-> CountHits(full, SHOCK_KW) * 25 + CountHits(full, SHOCK_VERBS) * 20],
       [cat |-> "civilization", s |-> CountHits(full, CIVILIZATION_KW) * 12],
       [cat |-> "struggle",     s |-> CountHits(full, STRUGGLE_KW) * 20],
       [cat |-> "origins",      s |-> CountHits(full, ORIGINS_KW) * 5] >>

\* scores.sort((a, b) => b.s - a.s)[0]: the sort is stable, so the first of
\* the entries with the highest s comes first
FirstHighest(scores) ==
    scores[CHOOSE i \in 1..Len(scores) :
             /\ \A j \in 1..Len(scores) : scores[j].s <= scores[i].s
             /\ \A j \in 1..(i - 1) : scores[j].s < scores[i].s]

\* lines 241-242, for the first entry of the sorted scores
CategoryOf(top) ==
    IF top.s = 0 THEN [cat |-> "civilization", catScore |-> 0]
    ELSE [cat |-> top.cat, catScore |-> top.s]

classify(full) == CategoryOf(FirstHighest(CategoryScores(full)))

\* `${title} ${extract}`.toLowerCase()
FullText(title, extract) == toLowerCase(title \o <<" ">> \o extract)

\* TitleBonus with the origins keywords among the lists tested
TitleBonusAnyCategory(titleLower) ==
    IF \/ SomeIncluded(titleLower, SHOCK_KW)
       \/ SomeIncluded(titleLower, CIVILIZATION_KW)
       \/ SomeIncluded(titleLower, STRUGGLE_KW)
       \/ SomeIncluded(titleLower, ORIGINS_KW)
    THEN 500 ELSE 0

\* lines 300-306: the title holds a keyword of shock, civilization or struggle
TitleBonus(titleLower) ==
    IF \/ SomeIncluded(titleLower, SHOCK_KW)
       \/ SomeIncluded(titleLower, CIVILIZATION_KW)
       \/ SomeIncluded(titleLower, STRUGGLE_KW)
    THEN 500 ELSE 0

\* the score of the base-scoring path (lines 297-331)
BaseScore(title, full, extract, catScore, sportMalus, hasAction) ==
    10 + catScore + TitleBonus(toLowerCase(title))
    - (IF sportMalus THEN 50 ELSE 0)
    - (IF SomeIncluded(full, GEO_PENALTIES) THEN 10 ELSE 0)
    + CountHits(full, IMPACT_KW) * 15
    + (IF hasAction THEN 10 ELSE 0)
    + (IF Len(extract) > 200 THEN 5 ELSE 0)
    + (IF Len(extract) > 500 THEN 5 ELSE 0)

\* The field reason of a ScoreResult is kept as the name of the rule that
\* wrote it: "memorial" (line 263), "church" (273), "sport" (281), "geo"
\* (293), "nodate" (326), "base" (338).

\* YearVerdict without the rejection of lines 324-327
YearVerdictNoReject(score, cat, hasAnyKeyword, year, langs) ==
    IF cat = "origins" /\ langs < 30
    THEN [score |-> RoundDiv(score, 5), rejected |-> FALSE, reason |-> "base",
          cat |-> cat]
    ELSE [score |-> score, rejected |-> FALSE, reason |-> "base", cat |-> cat]

\* lines 323-338: the year test and the origins reduction, for the score
\* of the base-scoring path
YearVerdict(score, cat, hasAnyKeyword, year, langs) ==
    IF (year = Null \/ year = Some(0)) /\ ~hasAnyKeyword
    THEN [score |-> 0, rejected |-> TRUE, reason |-> "nodate", cat |-> cat]
    ELSE IF cat = "origins" /\ langs < 30
    THEN [score |-> RoundDiv(score, 5), rejected |-> FALSE, reason |-> "base",
          cat |-> cat]
    ELSE [score |-> score, rejected |-> FALSE, reason |-> "base", cat |-> cat]

\* Verdict with the church rule tested before the memorial boost
VerdictChurchFirst(title, extract, langs, full, isMemorial, churchCount, hasAction, hasConflict, sportMalus, c) ==
    IF churchCount > 3 /\ ~hasAction /\ ~hasConflict
    THEN [score |-> 0, rejected |-> TRUE, reason |-> "church",
          cat |-> "civilization"]
    ELSE IF isMemorial
    THEN [score |-> (100 + CountHits(full, IMPACT_KW) * 15) * 10,
          rejected |-> FALSE, reason |-> "memorial", cat |-> "shock"]
    ELSE YearVerdict(BaseScore(title, full, extract, c.catScore, sportMalus,
                               hasAction),
                     c.cat, c.catScore > 0, extractYear(extract), langs)

\* Verdict without the rejection of lines 280-282
VerdictNoSportReject(title, extract, langs, full, isMemorial, churchCount, hasAction, hasConflict, sportMalus, c) ==
    IF isMemorial
    THEN [score |-> (100 + CountHits(full, IMPACT_KW) * 15) * 10,
          rejected |-> FALSE, reason |-> "memorial", cat |-> "shock"]
    ELSE IF churchCount > 3 /\ ~hasAction /\ ~hasConflict
    THEN [score |-> 0, rejected |-> TRUE, reason |-> "church",
          cat |-> "civilization"]
    ELSE IF SomeIncluded(full, GEO_PENALTIES) /\ ~(c.catScore > 0)
    THEN [score |-> -15, rejected |-> TRUE, reason |-> "geo", cat |-> c.cat]
    ELSE YearVerdict(BaseScore(title, full, extract, c.catScore, sportMalus,
                               hasAction),
                     c.cat, c.catScore > 0, extractYear(extract), langs)

\* Verdict with the church rule at 3 occurrences or more
VerdictChurchAtThree(title, extract, langs, full, isMemorial, churchCount, hasAction, hasConflict, sportMalus, c) ==
    IF isMemorial
    THEN [score |-> (100 + CountHits(full, IMPACT_KW) * 15) * 10,
          rejected |-> FALSE, reason |-> "memorial", cat |-> "shock"]
    ELSE IF churchCount >= 3 /\ ~hasAction /\ ~hasConflict
    THEN [score |-> 0, rejected |-> TRUE, reason |-> "church",
          cat |-> "civilization"]
    ELSE IF sportMalus /\ langs < 20
    THEN [score |-> -100, rejected |-> TRUE, reason |-> "sport",
          cat |-> "civilization"]
    ELSE IF SomeIncluded(full, GEO_PENALTIES) /\ ~(c.catScore > 0)
    THEN [score |-> -15, rejected |-> TRUE, reason |-> "geo", cat |-> c.cat]
    ELSE YearVerdict(BaseScore(title, full, extract, c.catScore, sportMalus,
                               hasAction),
                     c.cat, c.catScore > 0, extractYear(extract), langs)

\* lines 258-338, for the values the function computes from its arguments:
\* full, isMemorial, churchCount, hasAction, hasConflict, the sport malus
\* (isSport && !hasSportException) and the result c of classify
Verdict(title, extract, langs, full, isMemorial, churchCount, hasAction, hasConflict, sportMalus, c) ==
    IF isMemorial
    THEN [score |-> (100 + CountHits(full, IMPACT_KW) * 15) * 10,
          rejected |-> FALSE, reason |-> "memorial", cat |-> "shock"]
    ELSE IF churchCount > 3 /\ ~hasAction /\ ~hasConflict
    THEN [score |-> 0, rejected |-> TRUE, reason |-> "church",
          cat |-> "civilization"]
    ELSE IF sportMalus /\ langs < 20
    THEN [score |-> -100, rejected |-> TRUE, reason |-> "sport",
          cat |-> "civilization"]
    ELSE IF SomeIncluded(full, GEO_PENALTIES) /\ ~(c.catScore > 0)
    THEN [score |-> -15, rejected |-> TRUE, reason |-> "geo", cat |-> c.cat]
    ELSE YearVerdict(BaseScore(title, full, extract, c.catScore, sportMalus,
                               hasAction),
                     c.cat, c.catScore > 0, extractYear(extract), langs)

\* computeScore for the lowercased text full of title and extract
ScoreOfFull(title, extract, langs, full) ==
    Verdict(title, extract, langs, full,
            SomeIncluded(full, MEMORIAL_KW),
            countOccurrences(full, CHURCH_WORDS),
            hasVerb(full),
            SomeIncluded(full, SHOCK_KW \o STRUGGLE_KW),
            SomeIncluded(full, SPORT_BLACKLIST) /\ ~SomeIncluded(full, SPORT_EXCEPTIONS),
            classify(full))

computeScore(title, extract, langs) ==
    ScoreOfFull(title, extract, langs, FullText(title, extract))

(***************************************************************************)
(* Title (wikipedia.ts:345-351)                                            *)
(***************************************************************************)

\* lines 346-350, for the century label of title and extract
TitleWith(rawTitle, year, label) ==
    IF year # Null /\ year[1] > 0
    THEN <<"(">> \o NatToText(year[1]) \o <<")"," ">> \o rawTitle
    ELSE IF year # Null /\ year[1] < 0
    THEN <<"(">> \o NatToText(-year[1])
             \o <<" ","a","v","."," ","J",".","-","C",".",")"," ">> \o rawTitle
    ELSE IF label # Null
    THEN <<"(">> \o label[1] \o <<")"," ">> \o rawTitle
    ELSE rawTitle

formatTitle(rawTitle, year, extract) ==
    TitleWith(rawTitle, year, formatCenturyLabel(rawTitle \o <<" ">> \o extract))

(***************************************************************************)
(* The upstream API: what fr.wikipedia.org answers when a request          *)
(* succeeds.  Coordinates are integers, in thousandths of a degree.        *)
(***************************************************************************)

\* the number of articles around the dense grid point
BulkCount == 31

BulkPages == SubSeq([k \in 1..BulkCount |-> 100 + k], 1, BulkCount)

IsBulk(p) == p > 100

TxtCampDeDrancy == <<"C","a","m","p"," ","d","e"," ","D","r","a","n","c","y">>

TxtCampExtract ==
    <<"C","a","m","p"," ","d","e"," ","c","o","n","c","e","n","t","r","a","t",
      "i","o","n",","," ","1","9","4","2",","," ","v","i","c","t","i","m","e",
      "s",".">>

TxtStade == <<"S","t","a","d","e"," ","m","u","n","i","c","i","p","a","l">>

TxtStadeExtract ==
    <<"S","t","a","d","e"," ","d","e"," ","f","o","o","t","b","a","l","l",".">>

TxtGrotte == <<"G","r","o","t","t","e"," ","o","r","n","é","e">>

TxtGrotteExtract ==
    <<"G","r","o","t","t","e"," ","d","u"," ","p","a","l","é","o","l","i","t",
      "h","i","q","u","e",".">>

TxtTraite == <<"T","r","a","i","t","é"," ","d","e"," ","P","a","r","i","s">>

TxtTraiteExtract ==
    <<"T","r","a","i","t","é"," ","s","i","g","n","é"," ","e","n"," ","1","7",
      "6","3",".">>

TxtMassacre ==
    <<"M","a","s","s","a","c","r","e"," ","d","e"," ","T","u","l","l","e">>

TxtTulle == <<"T","u","l","l","e">>

TxtRevolte == <<"R","é","v","o","l","t","e">>

TxtRevolteExtract ==
    <<"R","é","v","o","l","t","e"," ","d","e"," ","1","8","4","8",".">>

\* One article of the encyclopedia: the title and coordinates the search
\* and coordinates queries give, its entry in an extracts response (Null
\* when the response has no entry for it) and the number of its language
\* links (Null when a langlinks response has no entry for it).
\* Massacres de Tulle
TxtMassacres ==
    <<"M","a","s","s","a","c","r","e","s"," ","d","e"," ","T","u","l","l",
      "e">>

\* En 1572: exécution, assassinat, fusillade, torture, pogrom, rafle, génocide, attentat, persécution, esclavage, bombardement, noyade; pendus, noyés, brûlés, victimes, morts, tués.
TxtMassacresExtract ==
    <<"E","n"," ","1","5","7","2",":"," ","e","x","é","c","u","t","i","o",
      "n",","," ","a","s","s","a","s","s","i","n","a","t",","," ","f","u",
      "s","i","l","l","a","d","e",","," ","t","o","r","t","u","r","e",",",
      " ","p","o","g","r","o","m",","," ","r","a","f","l","e",","," ","g",
      "é","n","o","c","i","d","e",","," ","a","t","t","e","n","t","a","t",
      ","," ","p","e","r","s","é","c","u","t","i","o","n",","," ","e","s",
      "c","l","a","v","a","g","e",","," ","b","o","m","b","a","r","d","e",
      "m","e","n","t",","," ","n","o","y","a","d","e",";"," ","p","e","n",
      "d","u","s",","," ","n","o","y","é","s",","," ","b","r","û","l","é",
      "s",","," ","v","i","c","t","i","m","e","s",","," ","m","o","r","t",
      "s",","," ","t","u","é","s",".">>

Page(title, coords, ext, langs) ==
    [title |-> title, coords |-> coords, ext |-> ext, langs |-> langs]

PageWorld(p) ==
    CASE p = 1 -> Page(TxtCampDeDrancy, Some(<<48920, 2450>>),
                       Some([title |-> TxtCampDeDrancy, extract |-> TxtCampExtract]),
                       Some(40))
      [] p = 2 -> Page(TxtStade, Some(<<10, 10>>),
                       Some([title |-> TxtStade, extract |-> TxtStadeExtract]),
                       Some(5))
      [] p = 3 -> Page(TxtGrotte, Some(<<190, 10>>),
                       Some([title |-> TxtGrotte, extract |-> TxtGrotteExtract]),
                       Some(5))
      [] p = 4 -> Page(TxtTraite, Some(<<180, 5>>),
                       Some([title |-> TxtTraite, extract |-> TxtTraiteExtract]),
                       Some(40))
      [] p = 5 -> Page(TxtMassacre, Some(<<45270, 1770>>), Null, Some(16))
      [] p = 6 -> Page(TxtMassacre, Null, Null, Null)
      [] p = 7 -> Page(TxtTulle, Some(<<-170, 3>>), Null, Null)
      [] p = 8 -> Page(TxtMassacres, Some(<<185, 2>>),
                       Some([title |-> TxtMassacres,
                             extract |-> TxtMassacresExtract]),
                       Some(2))
      [] OTHER -> Page(TxtRevolte, Some(<<200, 0>>),
                       Some([title |-> TxtRevolte, extract |-> TxtRevolteExtract]),
                       Some(1 + (p % 4)))

\* list=geosearch around the point (lat, lon); the radius of the search
\* is wider than the distance between two of these points, so that an
\* article is found from several of them
GeoWorld(lat, lon) ==
    CASE <<lat, lon>> = <<4, 0>>    -> <<1, 2, 7>>
      [] <<lat, lon>> = <<3, 1>>    -> <<1, 2, 7>>
      [] <<lat, lon>> = <<24, 0>>   -> <<2, 3>>
      [] <<lat, lon>> = <<183, 1>>  -> <<2, 4, 8>>
      [] <<lat, lon>> = <<204, 0>>  -> BulkPages
      [] OTHER -> <<>>

\* Number.prototype.toFixed(1) of x thousandths: the sign and the nearest
\* number of tenths
toFixed1(x) ==
    [neg |-> x < 0, tenths |-> ((IF x < 0 THEN -x ELSE x) + 50) \div 100]

\* srsearch of keywordSearch: `${query} ${lat.toFixed(1)} ${lon.toFixed(1)}`
SrSearch(query, lat, lon) ==
    [query |-> query, lat |-> toFixed1(lat), lon |-> toFixed1(lon)]

\* list=search for the text srsearch
KwWorld(srsearch) ==
    IF srsearch = [query |-> <<"m","a","s","s","a","c","r","e">>,
                   lat   |-> [neg |-> FALSE, tenths |-> 0],
                   lon   |-> [neg |-> FALSE, tenths |-> 0]]
    THEN <<5, 6, 3, 1>>
    ELSE <<>>

\* How a fetch ends: a 2xx response, another status, or an exception
\* (network error, unreadable body).
Outcomes == {"ok", "http", "throw"}

\* the arguments fetchWikiEvents is called with
Coords == {<<4, 0>>, <<24, 0>>, <<183, 1>>}

\* the number of invocations of fetchWikiEvents in a behaviour
MaxCalls == 2

\* the invocations, numbered in the order of their start
Procs == 1..MaxCalls

(***************************************************************************)
(* Helpers on sequences                                                    *)
(***************************************************************************)

Range(s) == {s[i] : i \in 1..Len(s)}

Min2(a, b) == IF a < b THEN a ELSE b

Max2(a, b) == IF a > b THEN a ELSE b

\* Array.prototype.slice(0, n)
Take(s, n) == SubSeq(s, 1, Min2(n, Len(s)))

\* the concatenation of the sequences of a sequence ([...a, ...b] and the
\* nested for loops over batches)
RECURSIVE Flatten(_)
Flatten(ss) == IF ss = <<>> THEN <<>> ELSE Head(ss) \o Flatten(Tail(ss))

\* the elements of the set S of integers in ascending order: the order in
\* which Object.entries lists the integer keys of an object
RECURSIVE Ascending(_)
Ascending(S) ==
    IF S = {} THEN <<>>
    ELSE LET m == CHOOSE x \in S : \A y \in S : x <= y
         IN  <<m>> \o Ascending(S \ {m})

(***************************************************************************)
(* API calls (wikipedia.ts:382-510)                                        *)
(*                                                                         *)
(* A call ends as a promise ends: fulfilled with a value, or rejected.     *)
(***************************************************************************)

MAX_RESULTS == 30

SHADOW_LIMIT == 150

\* srlimit of keywordSearch
SR_LIMIT == 5

\* the size of a chunk of page ids in fetchExtracts and fetchLangCounts
CHUNK_SIZE == 50

\* offsetDeg of buildGrid, 0.18 degrees
OFFSET_DEG == 180

Fulfilled(v) == [threw |-> FALSE, value |-> v]

Rejected == [threw |-> TRUE, value |-> <<>>]

\* geosearch without its try/catch: an exception of fetch rejects the promise
geosearchNoCatch(o, lat, lon, limit) ==
    IF o = "throw" THEN Rejected
    ELSE Fulfilled(IF o = "ok" THEN Take(GeoWorld(lat, lon), Min2(limit, 500))
                   ELSE <<>>)

\* geosearch once its fetch has ended with outcome o
geosearch(o, lat, lon, limit) ==
    Fulfilled(IF o = "ok" THEN Take(GeoWorld(lat, lon), Min2(limit, 500))
              ELSE <<>>)

\* keywordSearch, first request: the page ids of json.query.search
keywordSearchHits(o, query, lat, lon) ==
    Fulfilled(IF o = "ok" THEN Take(KwWorld(SrSearch(query, lat, lon)), SR_LIMIT)
              ELSE <<>>)

\* keywordSearch, second request (prop=coordinates for pids): the pages of
\* the response that have coordinates, in the order of Object.entries
keywordSearchCoords(o, pids) ==
    Fulfilled(IF o = "ok"
              THEN Ascending({p \in Range(pids) : PageWorld(p).coords # Null})
              ELSE <<>>)

\* the chunks fetchExtracts and fetchLangCounts cut pageids into
Chunks(pageids) ==
    ToArray([k \in 1..((Len(pageids) + CHUNK_SIZE - 1) \div CHUNK_SIZE) |->
                SubSeq(pageids, CHUNK_SIZE * (k - 1) + 1,
                       Min2(CHUNK_SIZE * k, Len(pageids)))])

\* one chunk of fetchExtracts: the page ids result.set is called for
fetchExtractsChunk(o, chunk) ==
    Fulfilled(IF o = "ok" THEN {p \in Range(chunk) : PageWorld(p).ext # Null}
              ELSE {})

\* fetchLangCountsChunk without its try/catch: an exception of fetch
\* rejects the promise
fetchLangCountsChunkNoCatch(o, chunk) ==
    IF o = "throw" THEN Rejected
    ELSE Fulfilled(IF o = "ok"
                   THEN {p \in Range(chunk) : PageWorld(p).langs # Null}
                   ELSE {})

\* one chunk of fetchLangCounts: the page ids result.set is called for
fetchLangCountsChunk(o, chunk) ==
    Fulfilled(IF o = "ok" THEN {p \in Range(chunk) : PageWorld(p).langs # Null}
              ELSE {})

(***************************************************************************)
(* Grid (wikipedia.ts:136-138, 516-525)                                    *)
(***************************************************************************)

\* Number.prototype.toFixed(2) of x thousandths: the sign and the nearest
\* number of hundredths ("-0.00" and "0.00" are different strings)
toFixed2(x) ==
    [neg |-> x < 0, hundredths |-> ((IF x < 0 THEN -x ELSE x) + 5) \div 10]

gridKey(lat, lon) == <<toFixed2(lat), toFixed2(lon)>>

buildGrid(lat, lon) ==
    << <<lat, lon>>,
       <<lat + OFFSET_DEG, lon>>,
       <<lat - OFFSET_DEG, lon>>,
       <<lat, lon + OFFSET_DEG>>,
       <<lat, lon - OFFSET_DEG>> >>

(***************************************************************************)
(* Notoriety multiplier (wikipedia.ts:602-604)                             *)
(***************************************************************************)

\* Math.log2(n) for n in 1..64 in units of 10^-10, as Log2Hi[n] * 10^5 +
\* Log2Lo[n] (numbers of the model stay below 2^31)
Log2Hi ==
    << 0, 100000, 158496, 200000, 232192, 258496, 280735, 300000,
       316992, 332192, 345943, 358496, 370043, 380735, 390689, 400000,
       408746, 416992, 424792, 432192, 439231, 445943, 452356, 458496,
       464385, 470043, 475488, 480735, 485798, 490689, 495419, 500000,
       504439, 508746, 512928, 516992, 520945, 524792, 528540, 532192,
       535755, 539231, 542626, 545943, 549185, 552356, 555458, 558496,
       561470, 564385, 567242, 570043, 572792, 575488, 578135, 580735,
       583289, 585798, 588264, 590689, 593073, 595419, 597727, 600000 >>

Log2Lo ==
    << 0, 0, 25007, 0, 80948, 25007, 49220, 0,
       50014, 80948, 16186, 25007, 97181, 49220, 5956, 0,
       28412, 50014, 75134, 80948, 74227, 16186, 19560, 25007,
       61897, 97181, 75021, 49220, 9951, 5956, 63103, 0,
       41193, 28412, 30169, 50014, 33656, 75134, 22188, 80948,
       20046, 74227, 47547, 16186, 30963, 19560, 88516, 25007,
       98441, 61897, 53419, 97181, 4545, 75021, 97135, 49220,
       141, 9951, 30493, 5956, 73375, 63103, 99234, 0 >>

\* Math.round(baseScore * (1 + Math.log2(n) * 0.3)) for 1 <= n <= 64 and
\* 3 * |baseScore| * Log2Hi[n] < 2^31
NotorietyRound(baseScore, n) ==
    LET X == 3 * baseScore * Log2Hi[n]
        Y == 3 * baseScore * Log2Lo[n]
    IN  baseScore + (X \div 1000000)
        + ((X % 1000000) + 500000 + (Y \div 100000)) \div 1000000

FinalScore(baseScore, langs) ==
    IF baseScore >= 1000 THEN baseScore
    ELSE NotorietyRound(baseScore, Max2(1, langs))

(***************************************************************************)
(* fetchWikiEvents (wikipedia.ts:531-643): the pure parts                  *)
(***************************************************************************)

PageIdSet == (1..8) \cup Range(BulkPages)

\* the coordinates a search gives for page p
CoordsOf(p) ==
    IF PageWorld(p).coords = Null THEN <<0, 0>> ELSE PageWorld(p).coords[1]

\* the GeoSearchResult a search yields for page p
GeoSearchResult(p) ==
    [pageid |-> p, title |-> PageWorld(p).title,
     lat |-> CoordsOf(p)[1], lon |-> CoordsOf(p)[2]]

\* lines 588-589: ext?.extract ?? "" and ext?.title ?? g.title, for the
\* entry ext of extracts (Null when there is none)
RawExtract(ext) == IF ext = Null THEN <<>> ELSE ext[1].extract

\* RawTitle without the fallback to the title of the search result
RawTitleEmpty(p, ext) == IF ext = Null THEN <<>> ELSE ext[1].title

RawTitle(p, ext) == IF ext = Null THEN GeoSearchResult(p).title ELSE ext[1].title

\* line 590: langCounts.get(g.pageid) ?? 0
LangsOf(p, hasLangs) ==
    IF hasLangs /\ PageWorld(p).langs # Null THEN PageWorld(p).langs[1] ELSE 0

\* lines 593-615 for a candidate: its score, year and title
Scored(rawTitle, rawExtract, langs, sc, year) ==
    [langs      |-> langs,
     sc         |-> sc,
     finalScore |-> IF sc.rejected THEN 0 ELSE FinalScore(sc.score, langs),
     year       |-> year,
     title      |-> formatTitle(rawTitle, year, rawExtract)]

ScoringOf(rawTitle, rawExtract, langs) ==
    Scored(rawTitle, rawExtract, langs,
           computeScore(rawTitle, rawExtract, langs), extractYear(rawExtract))

\* Lines 587-615 for candidate p: hasExt tells whether extracts has an
\* entry for p, hasLangs whether langCounts has one.
Scoring(p, hasExt, hasLangs) ==
    ScoringOf(RawTitle(p, IF hasExt THEN PageWorld(p).ext ELSE Null),
              RawExtract(IF hasExt THEN PageWorld(p).ext ELSE Null),
              LangsOf(p, hasLangs))

\* Scoring, computed once for every article
ScoringTable ==
    [p \in PageIdSet |->
        [e \in BOOLEAN |-> [l \in BOOLEAN |-> Scoring(p, e, l)]]]

\* EntryOf without the origins-minor filter of lines 607-611
EntryKeepMinor(p, t, fromKw) ==
    IF t.sc.rejected THEN Null
    ELSE Some([id               |-> p,
               title            |-> t.title,
               lat              |-> GeoSearchResult(p).lat,
               lng              |-> GeoSearchResult(p).lon,
               year             |-> t.year,
               category         |-> t.sc.cat,
               score            |-> t.finalScore,
               notorietyScore   |-> t.langs,
               isIncontournable |-> fromKw])

\* EntryOf with the origins-minor filter applied to the articles the
\* keyword searches found as well
EntryMinorAlways(p, t, fromKw) ==
    IF t.sc.rejected THEN Null
    ELSE IF t.sc.cat = "origins" /\ t.langs < 15 THEN Null
    ELSE Some([id               |-> p,
               title            |-> t.title,
               lat              |-> GeoSearchResult(p).lat,
               lng              |-> GeoSearchResult(p).lon,
               year             |-> t.year,
               category         |-> t.sc.cat,
               score            |-> t.finalScore,
               notorietyScore   |-> t.langs,
               isIncontournable |-> fromKw])

\* Lines 595-632 for candidate p and its scoring t: the value the loop
\* stores in articleCache for p, Null or <<event>>.
EntryOf(p, t, fromKw) ==
    IF t.sc.rejected THEN Null
    ELSE IF t.sc.cat = "origins" /\ t.langs < 15 /\ ~fromKw THEN Null
    ELSE Some([id               |-> p,
               title            |-> t.title,
               lat              |-> GeoSearchResult(p).lat,
               lng              |-> GeoSearchResult(p).lon,
               year             |-> t.year,
               category         |-> t.sc.cat,
               score            |-> t.finalScore,
               notorietyScore   |-> t.langs,
               isIncontournable |-> fromKw])

\* The body of the loop of lines 586-634 for candidate p
LoopEntry(p, hasExt, hasLangs, fromKw) ==
    EntryOf(p, ScoringTable[p][hasExt][hasLangs], fromKw)

\* the elements of s at the positions of the set keep, in the order of s;
\* pos[i] is the number of positions of keep up to i
PickAt(s, keep, pos) ==
    ToArray([k \in 1..Cardinality(keep) |-> s[CHOOSE i \in keep : pos[i] = k]])

Pick(s, keep) ==
    PickAt(s, keep,
           ToArray([i \in 1..Len(s) |-> Cardinality({j \in keep : j <= i})]))

\* the events of the entries of the cache for the page ids kept
EventsOf(cache, kept) == ToArray([k \in 1..Len(kept) |-> cache[kept[k]][1]])

\* lines 595-633 seen from the end of the loop over cands: the cache the
\* loop leaves, the list scored, and the page ids articleCache.set was
\* called for, in order
LoopResult(cands, cache) ==
    [cache  |-> cache,
     scored |-> EventsOf(cache, SelectSeq(cands, LAMBDA p : cache[p] # Null)),
     sets   |-> cands]

\* The loop of lines 586-634 over the candidates cands, no page id of
\* which occurs twice.
ScoreLoop(cands, extracts, langCounts, kwPageIds, cache) ==
    LoopResult(cands,
               [p \in DOMAIN cache \cup Range(cands) |->
                   IF p \in Range(cands)
                   THEN LoopEntry(p, p \in extracts, p \in langCounts,
                                  p \in kwPageIds)
                   ELSE cache[p]])

\* the places of the elements of s when s is sorted by descending score:
\* the sort is stable, so an element comes behind those of a higher score
\* and behind those of the same score that precede it in s
Ranks(s) ==
    ToArray([i \in 1..Len(s) |->
                Cardinality({j \in 1..Len(s) :
                               \/ s[j].score > s[i].score
                               \/ s[j].score = s[i].score /\ j < i}) + 1])

\* s rearranged so that s[i] comes at place rank[i]
Permute(s, rank) ==
    ToArray([k \in 1..Len(s) |-> s[CHOOSE i \in 1..Len(s) : rank[i] = k]])

\* SortByScore without the sort: the order of insertion is kept
KeepOrder(s) == s

\* scored.sort((a, b) => b.score - a.score)
SortByScore(s) == Permute(s, Ranks(s))

\* UniqueIds with the test articleCache.get(r.pageid) !== null in place of
\* !articleCache.has(r.pageid): only the tombstones are skipped
UniqueIdsRetryEvents(ids, cache) ==
    Pick(ids, {i \in 1..Len(ids) :
                 /\ (ids[i] \in DOMAIN cache => cache[ids[i]] # Null)
                 /\ \A j \in 1..(i - 1) : ids[j] # ids[i]})

\* UniqueIds without the test !articleCache.has(r.pageid)
UniqueIdsNoCache(ids, cache) ==
    Pick(ids, {i \in 1..Len(ids) : \A j \in 1..(i - 1) : ids[j] # ids[i]})

\* Lines 561-570: the page ids of uniqueMap, in insertion order, for the
\* page ids of the batches in order and the article cache
UniqueIds(ids, cache) ==
    Pick(ids, {i \in 1..Len(ids) :
                 /\ ids[i] \notin DOMAIN cache
                 /\ \A j \in 1..(i - 1) : ids[j] # ids[i]})

\* the ids of a list of events
Ids(events) == ToArray([k \in 1..Len(events) |-> events[k].id])

(***************************************************************************)
(* State                                                                   *)
(***************************************************************************)

VARIABLES
    gridCache,     \* the module's set gridCache
    articleCache,  \* the module's map articleCache: page id -> Null | <<event>>
    calls,         \* the invocations of fetchWikiEvents, one record per slot
    ncalls,        \* the number of invocations started so far
    geoIssued,     \* grid key -> number of geosearch requests issued for it
    scoredN,       \* page id -> number of times computeScore ran for it
    writes,        \* page id -> number of articleCache.set calls for it
    returned,      \* page id -> number of returned lists that hold it
    args,          \* the arguments of the pure function under study
    ret            \* its result, Null before it has run

vars ==
    <<gridCache, articleCache, calls, ncalls, geoIssued, scoredN, writes,
      returned, args, ret>>

pipelineVars ==
    <<gridCache, articleCache, calls, ncalls, geoIssued, scoredN, writes,
      returned>>

\* pc: "idle" (never called), "phase1" (awaiting the searches), "phase2"
\* (awaiting extracts and language links), "done" (returned result),
\* "threw" (the promise of fetchWikiEvents was rejected)
IdleCall ==
    [pc         |-> "idle",
     lat        |-> 0,
     lon        |-> 0,
     newPoints  |-> <<>>,   \* the grid points not in gridCache at the call
     geoRes     |-> <<>>,   \* the values of the settled geoPromises, in order
     kwRes      |-> <<>>,   \* the values of the settled kwPromises, in order
     kwPending  |-> Null,   \* <<pids>> while a coordinates request is out
     kwPageIds  |-> {},
     geoResults |-> <<>>,   \* the page ids of uniqueMap, in insertion order
     extracts   |-> {},     \* the keys of the map fetchExtracts fills
     langCounts |-> {},     \* the keys of the map fetchLangCounts fills
     extDone    |-> 0,      \* settled chunks of fetchExtracts
     langDone   |-> 0,      \* settled chunks of fetchLangCounts
     result     |-> <<>>,   \* the list returned
     nreq       |-> 0]      \* requests issued by this invocation

\* the counts m with one more for every occurrence in the sequence s
Bump(m, s) ==
    [x \in DOMAIN m \cup Range(s) |->
        (IF x \in DOMAIN m THEN m[x] ELSE 0)
        + Cardinality({k \in 1..Len(s) : s[k] = x})]

\* NewPoints without the filter: every grid point is queried
AllPoints(grid, cache) == grid

\* grid.filter((p) => !gridCache.has(gridKey(p.lat, p.lon)))
NewPoints(grid, cache) ==
    SelectSeq(grid, LAMBDA pt : gridKey(pt[1], pt[2]) \notin cache)

GridKeys(points) ==
    ToArray([k \in 1..Len(points) |-> gridKey(points[k][1], points[k][2])])

Init ==
    /\ gridCache = {}
    /\ articleCache = <<>>
    /\ calls = [i \in Procs |-> IdleCall]
    /\ ncalls = 0
    /\ geoIssued = <<>>
    /\ scoredN = <<>>
    /\ writes = <<>>
    /\ returned = <<>>
    /\ args = Null
    /\ ret = Null

(***************************************************************************)
(* fetchWikiEvents: the steps of one invocation                            *)
(*                                                                         *)
(* The requests of a fan-out are all issued at once.  Their responses are  *)
(* delivered in the order of the requests: the handlers of two responses   *)
(* write different promises and read no shared state, so every other       *)
(* order of delivery joins to the same values.                             *)
(***************************************************************************)

Settle(i, c) == calls' = [calls EXCEPT ![i] = c]

\* the invocation ends with a rejected promise
Throw(i) == calls' = [calls EXCEPT ![i].pc = "threw"]

\* the promise of a request settles: r is how the call that awaits the
\* response ends, c the invocation once the value r.value is taken in
Deliver(i, r, c) == IF r.threw THEN Throw(i) ELSE Settle(i, c)

\* StartWith without the early return of lines 539-542
StartWithoutSkip(i, lat, lon, newPoints) ==
    /\ gridCache' = gridCache \cup Range(GridKeys(newPoints))
    /\ geoIssued' = Bump(geoIssued, GridKeys(newPoints))
    /\ Settle(i, [IdleCall EXCEPT
                    !.pc = "phase1", !.lat = lat, !.lon = lon,
                    !.newPoints = newPoints,
                    !.nreq = Len(newPoints) + Len(KEYWORD_SEARCHES)])

\* StartWith without the gridCache.add of line 544
StartWithoutMark(i, lat, lon, newPoints) ==
    IF newPoints = <<>>
    THEN /\ Settle(i, [IdleCall EXCEPT !.pc = "done", !.lat = lat, !.lon = lon])
         /\ UNCHANGED <<gridCache, geoIssued>>
    ELSE /\ gridCache' = gridCache
         /\ geoIssued' = Bump(geoIssued, GridKeys(newPoints))
         /\ Settle(i, [IdleCall EXCEPT
                         !.pc = "phase1", !.lat = lat, !.lon = lon,
                         !.newPoints = newPoints,
                         !.nreq = Len(newPoints) + Len(KEYWORD_SEARCHES)])

\* Lines 538-553 for the grid points newPoints that gridCache does not hold
StartWith(i, lat, lon, newPoints) ==
    IF newPoints = <<>>
    THEN /\ Settle(i, [IdleCall EXCEPT !.pc = "done", !.lat = lat, !.lon = lon])
         /\ UNCHANGED <<gridCache, geoIssued>>
    ELSE /\ gridCache' = gridCache \cup Range(GridKeys(newPoints))
         /\ geoIssued' = Bump(geoIssued, GridKeys(newPoints))
         /\ Settle(i, [IdleCall EXCEPT
                         !.pc = "phase1", !.lat = lat, !.lon = lon,
                         !.newPoints = newPoints,
                         !.nreq = Len(newPoints) + Len(KEYWORD_SEARCHES)])

\* Lines 536-553: the call, up to the first await.
Start(i, lat, lon) ==
    /\ i = ncalls + 1
    /\ ncalls' = ncalls + 1
    /\ StartWith(i, lat, lon, NewPoints(buildGrid(lat, lon), gridCache))
    /\ UNCHANGED <<articleCache, scoredN, writes, returned, args, ret>>

\* the grid point of the next geosearch to settle
NextPoint(c) == c.newPoints[Len(c.geoRes) + 1]

\* The fetch of the next geosearch ends with outcome o.
GeoResponse(i, o) ==
    /\ calls[i].pc = "phase1"
    /\ Len(calls[i].geoRes) < Len(calls[i].newPoints)
    /\ Deliver(i, geosearch(o, NextPoint(calls[i])[1], NextPoint(calls[i])[2],
                            SHADOW_LIMIT),
               [calls[i] EXCEPT
                  !.geoRes = Append(@, geosearch(o, NextPoint(calls[i])[1],
                                                 NextPoint(calls[i])[2],
                                                 SHADOW_LIMIT).value)])
    /\ UNCHANGED <<gridCache, articleCache, ncalls, geoIssued, scoredN,
                   writes, returned, args, ret>>

\* keywordSearch after its first request: without hits it ends with [],
\* else the coordinates request for the hits is issued
AfterHits(c, hits) ==
    IF hits = <<>> THEN [c EXCEPT !.kwRes = Append(@, <<>>)]
    ELSE [c EXCEPT !.kwPending = Some(hits), !.nreq = @ + 1]

\* the keyword of the next keywordSearch to settle
NextKeyword(c) == KEYWORD_SEARCHES[Len(c.kwRes) + 1]

\* The first fetch of the next keywordSearch ends with outcome o.
KwSearchResponse(i, o) ==
    /\ calls[i].pc = "phase1"
    /\ Len(calls[i].geoRes) = Len(calls[i].newPoints)
    /\ Len(calls[i].kwRes) < Len(KEYWORD_SEARCHES)
    /\ calls[i].kwPending = Null
    /\ Deliver(i, keywordSearchHits(o, NextKeyword(calls[i]),
                                    calls[i].lat, calls[i].lon),
               AfterHits(calls[i],
                         keywordSearchHits(o, NextKeyword(calls[i]),
                                           calls[i].lat, calls[i].lon).value))
    /\ UNCHANGED <<gridCache, articleCache, ncalls, geoIssued, scoredN,
                   writes, returned, args, ret>>

\* The coordinates fetch of the keywordSearch in progress ends with o.
KwCoordsResponse(i, o) ==
    /\ calls[i].pc = "phase1"
    /\ calls[i].kwPending # Null
    /\ Deliver(i, keywordSearchCoords(o, calls[i].kwPending[1]),
               [calls[i] EXCEPT
                  !.kwRes = Append(@, keywordSearchCoords(
                                          o, calls[i].kwPending[1]).value),
                  !.kwPending = Null])
    /\ UNCHANGED <<gridCache, articleCache, ncalls, geoIssued, scoredN,
                   writes, returned, args, ret>>

\* AfterMerge with the articles a geosearch returned left out of kwPageIds
AfterMergeKeywordOnly(c, kw, ids) ==
    IF ids = <<>>
    THEN [c EXCEPT !.pc = "done", !.kwPageIds = kw]
    ELSE [c EXCEPT !.pc = "phase2",
                   !.kwPageIds = kw \ Range(Flatten(c.geoRes)),
                   !.geoResults = ids,
                   !.nreq = @ + 2 * Len(Chunks(ids))]

\* Lines 555-581 for the page ids ids of uniqueMap: without any the call
\* returns [], else the extracts and language links are requested
AfterMerge(c, kw, ids) ==
    IF ids = <<>>
    THEN [c EXCEPT !.pc = "done", !.kwPageIds = kw]
    ELSE [c EXCEPT !.pc = "phase2",
                   !.kwPageIds = kw,
                   !.geoResults = ids,
                   !.nreq = @ + 2 * Len(Chunks(ids))]

\* Merge without waiting for the keyword searches
MergeBeforeKeywordSearches(i) ==
    /\ calls[i].pc = "phase1"
    /\ Len(calls[i].geoRes) = Len(calls[i].newPoints)
    /\ calls[i].kwPending = Null
    /\ Settle(i, AfterMerge(calls[i],
                            UNION {Range(calls[i].kwRes[k]) :
                                     k \in 1..Len(calls[i].kwRes)},
                            UniqueIds(Flatten(calls[i].geoRes \o calls[i].kwRes),
                                      articleCache)))
    /\ UNCHANGED <<gridCache, articleCache, ncalls, geoIssued, scoredN,
                   writes, returned, args, ret>>

\* Lines 555-581: both Promise.all of line 550 are fulfilled; the results
\* are merged and the extracts and language links are requested.
Merge(i) ==
    /\ calls[i].pc = "phase1"
    /\ Len(calls[i].geoRes) = Len(calls[i].newPoints)
    /\ Len(calls[i].kwRes) = Len(KEYWORD_SEARCHES)
    /\ Settle(i, AfterMerge(calls[i],
                            UNION {Range(calls[i].kwRes[k]) :
                                     k \in 1..Len(calls[i].kwRes)},
                            UniqueIds(Flatten(calls[i].geoRes \o calls[i].kwRes),
                                      articleCache)))
    /\ UNCHANGED <<gridCache, articleCache, ncalls, geoIssued, scoredN,
                   writes, returned, args, ret>>

\* The fetch of the next chunk of fetchExtracts ends with outcome o.
ExtractsResponse(i, o) ==
    /\ calls[i].pc = "phase2"
    /\ calls[i].extDone < Len(Chunks(calls[i].geoResults))
    /\ Deliver(i, fetchExtractsChunk(
                      o, Chunks(calls[i].geoResults)[calls[i].extDone + 1]),
               [calls[i] EXCEPT
                  !.extracts = @ \cup fetchExtractsChunk(
                      o, Chunks(calls[i].geoResults)[calls[i].extDone + 1]).value,
                  !.extDone = @ + 1])
    /\ UNCHANGED <<gridCache, articleCache, ncalls, geoIssued, scoredN,
                   writes, returned, args, ret>>

\* The fetch of the next chunk of fetchLangCounts ends with outcome o.
LangCountsResponse(i, o) ==
    /\ calls[i].pc = "phase2"
    /\ calls[i].extDone = Len(Chunks(calls[i].geoResults))
    /\ calls[i].langDone < Len(Chunks(calls[i].geoResults))
    /\ Deliver(i, fetchLangCountsChunk(
                      o, Chunks(calls[i].geoResults)[calls[i].langDone + 1]),
               [calls[i] EXCEPT
                  !.langCounts = @ \cup fetchLangCountsChunk(
                      o, Chunks(calls[i].geoResults)[calls[i].langDone + 1]).value,
                  !.langDone = @ + 1])
    /\ UNCHANGED <<gridCache, articleCache, ncalls, geoIssued, scoredN,
                   writes, returned, args, ret>>

\* Lines 636-642 for the list scored: the list returned
TopOf(scored) == Take(SortByScore(scored), MAX_RESULTS)

\* Lines 583-642 for the outcome r of the loop and the list top returned
ScoreWith(i, r, top) ==
    /\ articleCache' = r.cache
    /\ scoredN' = Bump(scoredN, calls[i].geoResults)
    /\ writes' = Bump(writes, r.sets)
    /\ returned' = Bump(returned, Ids(top))
    /\ Settle(i, [calls[i] EXCEPT !.pc = "done", !.result = top])

\* Lines 583-642: the Promise.all of line 578 is fulfilled; the candidates
\* are scored, cached, sorted and the first MAX_RESULTS returned.
Score(i) ==
    /\ calls[i].pc = "phase2"
    /\ calls[i].extDone = Len(Chunks(calls[i].geoResults))
    /\ calls[i].langDone = Len(Chunks(calls[i].geoResults))
    /\ ScoreWith(i,
                 ScoreLoop(calls[i].geoResults, calls[i].extracts,
                           calls[i].langCounts, calls[i].kwPageIds, articleCache),
                 TopOf(ScoreLoop(calls[i].geoResults, calls[i].extracts,
                                 calls[i].langCounts, calls[i].kwPageIds,
                                 articleCache).scored))
    /\ UNCHANGED <<gridCache, ncalls, geoIssued, args, ret>>

Next ==
    \E i \in Procs :
        \/ \E ll \in Coords : Start(i, ll[1], ll[2])
        \/ \E o \in Outcomes : GeoResponse(i, o)
        \/ \E o \in Outcomes : KwSearchResponse(i, o)
        \/ \E o \in Outcomes : KwCoordsResponse(i, o)
        \/ Merge(i)
        \/ \E o \in Outcomes : ExtractsResponse(i, o)
        \/ \E o \in Outcomes : LangCountsResponse(i, o)
        \/ Score(i)

Spec == Init /\ [][Next]_vars

(***************************************************************************)
(* computeScore on its own (wikipedia.ts:252-339)                          *)
(***************************************************************************)

\* Rafle du Vel d'Hiv
TxtRafle ==
    <<"R","a","f","l","e"," ","d","u"," ","V","e","l"," ","d","'","H","i",
      "v">>

\* Stade de Drancy
TxtStadeDrancy ==
    <<"S","t","a","d","e"," ","d","e"," ","D","r","a","n","c","y">>

\* Église
TxtEglise ==
    <<"É","g","l","i","s","e">>

\* GOULAG
TxtGoulag ==
    <<"G","O","U","L","A","G">>

\* Commune de Tulle
TxtCommune ==
    <<"C","o","m","m","u","n","e"," ","d","e"," ","T","u","l","l","e">>

\* En 1942, les nazis ont déporté des milliers de prisonniers vers un camp de concentration.
TxtRafleExtract ==
    <<"E","n"," ","1","9","4","2",","," ","l","e","s"," ","n","a","z","i",
      "s"," ","o","n","t"," ","d","é","p","o","r","t","é"," ","d","e","s",
      " ","m","i","l","l","i","e","r","s"," ","d","e"," ","p","r","i","s",
      "o","n","n","i","e","r","s"," ","v","e","r","s"," ","u","n"," ","c",
      "a","m","p"," ","d","e"," ","c","o","n","c","e","n","t","r","a","t",
      "i","o","n",".">>

\* église paroisse édifice chapelle, charnier
TxtCharnierExtract ==
    <<"é","g","l","i","s","e"," ","p","a","r","o","i","s","s","e"," ","é",
      "d","i","f","i","c","e"," ","c","h","a","p","e","l","l","e",","," ",
      "c","h","a","r","n","i","e","r">>

\* Shoah: victimes, morts, tués.
TxtShoahExtract ==
    <<"S","h","o","a","h",":"," ","v","i","c","t","i","m","e","s",","," ",
      "m","o","r","t","s",","," ","t","u","é","s",".">>

\* église paroisse édifice chapelle
TxtChurchExtract ==
    <<"é","g","l","i","s","e"," ","p","a","r","o","i","s","s","e"," ","é",
      "d","i","f","i","c","e"," ","c","h","a","p","e","l","l","e">>

\* église paroisse édifice
TxtThreeChurchExtract ==
    <<"é","g","l","i","s","e"," ","p","a","r","o","i","s","s","e"," ","é",
      "d","i","f","i","c","e">>

\* Vers 1850.
TxtYearOnlyExtract ==
    <<"V","e","r","s"," ","1","8","5","0",".">>

\* L'église Saint-Pierre est un édifice paroissial du XIIe siècle sans événement notable.
TxtSaintPierreExtract ==
    <<"L","'","é","g","l","i","s","e"," ","S","a","i","n","t","-","P","i",
      "e","r","r","e"," ","e","s","t"," ","u","n"," ","é","d","i","f","i",
      "c","e"," ","p","a","r","o","i","s","s","i","a","l"," ","d","u"," ",
      "X","I","I","e"," ","s","i","è","c","l","e"," ","s","a","n","s"," ",
      "é","v","é","n","e","m","e","n","t"," ","n","o","t","a","b","l","e",
      ".">>

ScoreTitles ==
    {TxtRafle, TxtStadeDrancy, TxtEglise, TxtGoulag, TxtCommune, TxtGrotte,
     TxtTulle, TxtMassacre}

ScoreExtracts ==
    {TxtRafleExtract, <<>>, TxtStadeExtract, TxtCharnierExtract,
     TxtShoahExtract, TxtChurchExtract, TxtRevolteExtract,
     TxtThreeChurchExtract, TxtYearOnlyExtract, TxtSaintPierreExtract}

ScoreLangs == {0, 10, 25, 40}

\* the arguments computeScore is called with
ScoreInputs ==
    [title : ScoreTitles, extract : ScoreExtracts, langs : ScoreLangs]

InitScore ==
    /\ gridCache = {}
    /\ articleCache = <<>>
    /\ calls = [i \in Procs |-> IdleCall]
    /\ ncalls = 0
    /\ geoIssued = <<>>
    /\ scoredN = <<>>
    /\ writes = <<>>
    /\ returned = <<>>
    /\ args \in {Some(a) : a \in ScoreInputs}
    /\ ret = Null

\* the call computeScore(title, extract, langs) returns
CallComputeScore ==
    /\ args # Null
    /\ ret = Null
    /\ ret' = Some(computeScore(args[1].title, args[1].extract, args[1].langs))
    /\ UNCHANGED <<gridCache, articleCache, calls, ncalls, geoIssued, scoredN,
                   writes, returned, args>>

NextScore == CallComputeScore

SpecScore == InitScore /\ [][NextScore]_vars

(***************************************************************************)
(* Non-overlapping invocations                                             *)
(***************************************************************************)

\* a call made when no other invocation is in progress
StartAlone(i, lat, lon) ==
    /\ \A j \in Procs : calls[j].pc \in {"idle", "done", "threw"}
    /\ Start(i, lat, lon)

NextSeq ==
    \E i \in Procs :
        \/ \E ll \in Coords : StartAlone(i, ll[1], ll[2])
        \/ \E o \in Outcomes : GeoResponse(i, o)
        \/ \E o \in Outcomes : KwSearchResponse(i, o)
        \/ \E o \in Outcomes : KwCoordsResponse(i, o)
        \/ Merge(i)
        \/ \E o \in Outcomes : ExtractsResponse(i, o)
        \/ \E o \in Outcomes : LangCountsResponse(i, o)
        \/ Score(i)

SpecSeq == Init /\ [][NextSeq]_vars

(***************************************************************************)
(* Progress                                                                *)
(*                                                                         *)
(* The continuation of an await runs once its promise is settled: the job  *)
(* queue of the event loop is served, so Merge and Score are taken under   *)
(* weak fairness.  Whether a request ever completes is up to the network   *)
(* and is no part of the specification.                                    *)
(***************************************************************************)

\* one of the requests invocation i is waiting for completes, with a
\* response or with a failure
RequestCompletes(i) ==
    \/ \E o \in Outcomes : GeoResponse(i, o)
    \/ \E o \in Outcomes : KwSearchResponse(i, o)
    \/ \E o \in Outcomes : KwCoordsResponse(i, o)
    \/ \E o \in Outcomes : ExtractsResponse(i, o)
    \/ \E o \in Outcomes : LangCountsResponse(i, o)

\* ENABLED <<Merge(i)>>_vars: both Promise.all of line 550 are fulfilled
\* (Merge always changes calls[i].pc)
MergeReady(i) ==
    /\ calls[i].pc = "phase1"
    /\ Len(calls[i].geoRes) = Len(calls[i].newPoints)
    /\ Len(calls[i].kwRes) = Len(KEYWORD_SEARCHES)

\* ENABLED <<Score(i)>>_vars: the Promise.all of line 578 is fulfilled
\* (Score always changes calls[i].pc)
ScoreReady(i) ==
    /\ calls[i].pc = "phase2"
    /\ calls[i].extDone = Len(Chunks(calls[i].geoResults))
    /\ calls[i].langDone = Len(Chunks(calls[i].geoResults))

\* WF_vars(Merge(i)) /\ WF_vars(Score(i)), with ENABLED written out as the
\* guards above: a continuation whose promise is fulfilled is run
ContinuationsRun(i) ==
    /\ []<>(~MergeReady(i)) \/ []<><<Merge(i)>>_vars
    /\ []<>(~ScoreReady(i)) \/ []<><<Score(i)>>_vars

SpecLive ==
    /\ Init
    /\ [][Next]_vars
    /\ \A i \in Procs : ContinuationsRun(i)

(***************************************************************************)
(* classify called repeatedly on one text                                  *)
(***************************************************************************)

\* the number of successive calls of classify on the text
ClassifyCalls == 2

\* the texts classify is called with: the lowercased title plus extract,
\* as computeScore builds it (line 253)
ClassifyTexts ==
    {FullText(t, e) :
        t \in ScoreTitles \cup {TxtTraite, TxtRevolte},
        e \in ScoreExtracts
               \cup {TxtTraiteExtract, TxtGrotteExtract, TxtCampExtract}}

InitClassify ==
    /\ gridCache = {}
    /\ articleCache = <<>>
    /\ calls = [i \in Procs |-> IdleCall]
    /\ ncalls = 0
    /\ geoIssued = <<>>
    /\ scoredN = <<>>
    /\ writes = <<>>
    /\ returned = <<>>
    /\ args \in {Some(t) : t \in ClassifyTexts}
    /\ ret = <<>>

\* one more call classify(full) returns; ret lists the results in order
CallClassify ==
    /\ Len(ret) < ClassifyCalls
    /\ ret' = Append(ret, classify(args[1]))
    /\ UNCHANGED <<gridCache, articleCache, calls, ncalls, geoIssued, scoredN,
                   writes, returned, args>>

NextClassify == CallClassify

SpecClassify == InitClassify /\ [][NextClassify]_vars


(***************************************************************************)
(* Quiz points (gameEngine, part_002:282-305)                              *)
(***************************************************************************)

\* the highest number of hints of an answer
MaxHints == 5

\* the number of answers of a game
MaxAnswers == 2

\* PointsFor without the floor of line 302
PointsNoFloor(hintsUsed, wasQCM) ==
    IF wasQCM THEN RoundDiv(100 - hintsUsed * 30, 2) ELSE 100 - hintsUsed * 30

\* PointsFor with the floor applied before the halving
PointsFloorFirst(hintsUsed, wasQCM) ==
    IF wasQCM THEN RoundDiv(Max2(10, 100 - hintsUsed * 30), 2)
    ELSE Max2(10, 100 - hintsUsed * 30)

\* lines 291-302: the points of a correct answer. points is an integer, so
\* Math.round(points * 0.5) is floor((points + 1) / 2)
PointsFor(hintsUsed, wasQCM) ==
    Max2(10, IF wasQCM THEN RoundDiv(100 - hintsUsed * 30, 2)
             ELSE 100 - hintsUsed * 30)

\* calculatePoints without the early return of lines 287-289
calculatePointsNoEarlyReturn(correct, hintsUsed, wasQCM) ==
    [points    |-> PointsFor(hintsUsed, wasQCM),
     hintsUsed |-> hintsUsed,
     wasQCM    |-> wasQCM,
     correct   |-> correct]

calculatePoints(correct, hintsUsed, wasQCM) ==
    IF ~correct
    THEN [points |-> 0, hintsUsed |-> hintsUsed, wasQCM |-> wasQCM,
          correct |-> FALSE]
    ELSE [points    |-> PointsFor(hintsUsed, wasQCM),
          hintsUsed |-> hintsUsed,
          wasQCM    |-> wasQCM,
          correct   |-> TRUE]

\* the arguments calculatePoints is called with
PointsInputs ==
    [correct : BOOLEAN, hintsUsed : (-1)..MaxHints, wasQCM : BOOLEAN]

InitPoints ==
    /\ gridCache = {}
    /\ articleCache = <<>>
    /\ calls = [i \in Procs |-> IdleCall]
    /\ ncalls = 0
    /\ geoIssued = <<>>
    /\ scoredN = <<>>
    /\ writes = <<>>
    /\ returned = <<>>
    /\ args = Null
    /\ ret = <<>>

\* an answer is given and calculatePoints(correct, hintsUsed, wasQCM)
\* returns; ret lists the calls of the game, arguments and result
CallCalculatePoints(a) ==
    /\ Len(ret) < MaxAnswers
    /\ args' = Some(a)
    /\ ret' = Append(ret, [in  |-> a,
                           out |-> calculatePoints(a.correct, a.hintsUsed,
                                                   a.wasQCM)])
    /\ UNCHANGED <<gridCache, articleCache, calls, ncalls, geoIssued, scoredN,
                   writes, returned>>

NextPoints == \E a \in PointsInputs : CallCalculatePoints(a)

SpecPoints == InitPoints /\ [][NextPoints]_vars

(***************************************************************************)
(* extractYear called on one text                                          *)
(***************************************************************************)

\* what precedes the date in the text
YearPrefixes ==
    { <<>>, <<"E","n"," ","1","7","8","9",","," ","p","u","i","s"," ","e","n"," ">>, <<"A","u"," ","X","I","I","e"," ","s","i","è","c","l","e",","," ","v","e","r","s"," ">>, <<"N","é"," ","e","n"," ","4","4"," ","a","v","."," ","J",".","-","C",".",","," ","m","o","r","t"," ","e","n"," ">> }

\* a number followed by the BCE marker, in the punctuations the pattern of
\* line 152 accepts, and numbers without marker
YearNumerals ==
    { <<"5","2">>, <<"0">>, <<"7","5","3">>, <<"2","5","0","0">>, <<"1","2","3","4","5">>, <<"0","0","4","4">> }

YearMarkers ==
    { <<" ","a","v","."," ","J",".","-","C",".">>, <<" ","a","v"," ","J",".","-","C">>, <<"a","v","."," ","J","C">>, <<" ","a","v","a","n","t"," ","J",".","-","C",".">>, <<" ","A","V","."," ","J",".","-","C",".">>, <<" ","a","p","r","."," ","J",".","-","C",".">> }

\* a century in Roman or Arabic notation
CenturyNumerals ==
    { <<"I">>, <<"I","V">>, <<"X","I","I">>, <<"X","X","I">>, <<"x","i","x">>, <<"1">>, <<"4">>, <<"1","2">>, <<"2","1">>, <<"2","2">> }

CenturyOrdinals == { <<"e"," ","s","i","è","c","l","e">>, <<"e"," "," ","s","i","è","c","l","e">>, <<"è","m","e"," ","s","i","è","c","l","e">> }

CenturyMarkers == { <<>>, <<" ","a","v","."," ","J",".","-","C",".">>, <<" ","a","v","a","n","t"," ","J",".","-","C",".">> }

CenturyPrefixes == { <<>>, <<"T","e","m","p","l","e"," ","d","u"," ">>, <<"E","n"," ","9","9",","," ","a","u"," ">>, <<"V","e","r","s"," ","2","1","0","0"," ","o","u"," ","a","u"," ">> }

\* the texts extractYear is called with
YearTexts ==
    {p \o n \o m : p \in YearPrefixes, n \in YearNumerals, m \in YearMarkers}
    \cup {p \o n \o o \o m : p \in CenturyPrefixes, n \in CenturyNumerals,
                             o \in CenturyOrdinals, m \in CenturyMarkers}

InitYear ==
    /\ gridCache = {}
    /\ articleCache = <<>>
    /\ calls = [i \in Procs |-> IdleCall]
    /\ ncalls = 0
    /\ geoIssued = <<>>
    /\ scoredN = <<>>
    /\ writes = <<>>
    /\ returned = <<>>
    /\ args \in {Some(t) : t \in YearTexts}
    /\ ret = Null

\* the call extractYear(text) returns; ret is <<result>>, the result being
\* Null or <<year>>
CallExtractYear ==
    /\ args # Null
    /\ ret = Null
    /\ ret' = Some(extractYear(args[1]))
    /\ UNCHANGED <<gridCache, articleCache, calls, ncalls, geoIssued, scoredN,
                   writes, returned, args>>

NextYear == CallExtractYear

SpecYear == InitYear /\ [][NextYear]_vars

(***************************************************************************)
(* Quiz titles (part_002:215-220)                                          *)
(***************************************************************************)

\* an optional character of a pattern (c?), case-sensitive
OptChar(t, p, c) == IF p <= Len(t) /\ t[p] = c THEN p + 1 ELSE p

\* C\.? matches from p: the position after the match, 0 without a match
AfterC(t, p) == IF MatchAt(t, <<"C">>, p) THEN OptChar(t, p + 1, ".") ELSE 0

\* J\.?-?C\.? matches from p: the position after the match, or 0
AfterJC(t, p) ==
    IF MatchAt(t, <<"J">>, p)
    THEN AfterC(t, OptChar(t, OptChar(t, p + 1, "."), "-"))
    ELSE 0

\* \s*av\.?\s*J\.?-?C\.? matches from p: the position after the match, or 0
AfterBcSuffix(t, p) ==
    IF MatchAt(t, <<"a","v">>, SkipSpaces(t, p))
    THEN AfterJC(t, SkipSpaces(t, OptChar(t, SkipSpaces(t, p) + 2, ".")))
    ELSE 0

\* \)\s* matches from p: the position after the match, or 0
AfterClose(t, p) == IF MatchAt(t, <<")">>, p) THEN SkipSpaces(t, p + 1) ELSE 0

\* (?:\s*av\.?\s*J\.?-?C\.?)?\)\s* matches from p: the position after the
\* match, or 0
AfterPrefixTail(t, p) ==
    IF AfterBcSuffix(t, p) # 0 /\ AfterClose(t, AfterBcSuffix(t, p)) # 0
    THEN AfterClose(t, AfterBcSuffix(t, p))
    ELSE AfterClose(t, p)

\* the length of the run of characters of [IVXLCDM] from s
RECURSIVE NumeralRun(_, _)
NumeralRun(t, s) ==
    IF s <= Len(t) /\ t[s] \in {"I","V","X","L","C","D","M"}
    THEN 1 + NumeralRun(t, s + 1)
    ELSE 0

\* /^\(\d{1,4}(?:\s*av\.?\s*J\.?-?C\.?)?\)\s*/ matches t: the position
\* after the match, or 0
YearPrefixEnd(t) ==
    IF MatchAt(t, <<"(">>, 1) /\ DigitRun(t, 2) \in 1..4
    THEN AfterPrefixTail(t, 2 + DigitRun(t, 2))
    ELSE 0

\* /^\([IVXLCDM]+e(?:\s*av\.?\s*J\.?-?C\.?)?\)\s*/ matches t: the position
\* after the match, or 0
CenturyPrefixEnd(t) ==
    IF /\ MatchAt(t, <<"(">>, 1)
       /\ NumeralRun(t, 2) >= 1
       /\ MatchAt(t, <<"e">>, 2 + NumeralRun(t, 2))
    THEN AfterPrefixTail(t, 3 + NumeralRun(t, 2))
    ELSE 0

\* t.replace(re, "") for an anchored pattern whose match ends before end
DropPrefix(t, end) == IF end = 0 THEN t ELSE SubSeq(t, end, Len(t))

\* the last position of t that holds no white space, 0 when there is none
LastInk(t) == MaxOr0({p \in 1..Len(t) : ~IsSpace(t[p])})

\* String.prototype.trim
trim(t) == SubSeq(t, SkipSpaces(t, 1), LastInk(t))

\* lines 215-220
cleanTitle(title) ==
    trim(DropPrefix(DropPrefix(title, YearPrefixEnd(title)),
                    CenturyPrefixEnd(DropPrefix(title, YearPrefixEnd(title)))))

(***************************************************************************)
(* cleanTitle after formatTitle: the title of an event as the quiz sees it *)
(***************************************************************************)

\* raw titles of Wikipedia articles
TitleRawTitles ==
    { <<"T","e","m","p","l","e">>, <<" ","A","l","é","s","i","a"," ">>, <<"(","1","9","4","4",")"," ","R","a","f","l","e">>, <<"(","I","V","e",")"," ","S","i","è","c","l","e">> }

\* what extractYear can return
TitleYears == {Null, Some(1789), Some(52), Some(-52), Some(-1200), Some(0)}

TitleExtracts ==
    { <<>>, <<"C","o","n","s","t","r","u","i","t"," ","a","u"," ","X","I","I","e"," ","s","i","è","c","l","e",".">>, <<"C","o","n","s","t","r","u","i","t"," ","a","u"," ","x","i","i","e"," ","s","i","è","c","l","e",".">>,
      <<"F","o","n","d","é"," ","a","u"," ","I","I","I","e"," ","s","i","è","c","l","e"," ","a","v","."," ","J",".","-","C",".">>, <<"P","r","é","v","u"," ","p","o","u","r"," ","l","e"," ","2","2","e"," ","s","i","è","c","l","e",".">>,
      <<"B","â","t","i"," ","a","u"," ","1","2","e"," ","s","i","è","c","l","e",".">> }

TitleInputs ==
    {[rawTitle |-> r, year |-> y, extract |-> e] :
        r \in TitleRawTitles, y \in TitleYears, e \in TitleExtracts}

InitTitle ==
    /\ gridCache = {}
    /\ articleCache = <<>>
    /\ calls = [i \in Procs |-> IdleCall]
    /\ ncalls = 0
    /\ geoIssued = <<>>
    /\ scoredN = <<>>
    /\ writes = <<>>
    /\ returned = <<>>
    /\ args \in {Some(a) : a \in TitleInputs}
    /\ ret = Null

\* the event title is built by formatTitle (wikipedia.ts:615) and cleaned by
\* cleanTitle (part_002:248); ret is <<[title, clean]>>
CallCleanTitle ==
    /\ args # Null
    /\ ret = Null
    /\ ret' = Some([title |-> formatTitle(args[1].rawTitle, args[1].year,
                                          args[1].extract),
                    clean |-> cleanTitle(formatTitle(args[1].rawTitle,
                                                     args[1].year,
                                                     args[1].extract))])
    /\ UNCHANGED <<gridCache, articleCache, calls, ncalls, geoIssued, scoredN,
                   writes, returned, args>>

NextTitle == CallCleanTitle

SpecTitle == InitTitle /\ [][NextTitle]_vars

(***************************************************************************)
(* Quiz question (part_002:148-268)                                        *)
(***************************************************************************)

\* cleanTitle(e.title).toLowerCase(), the key of the set used
TitleKey(title) == toLowerCase(cleanTitle(title))

\* copy with the elements at i and j exchanged
Swap(copy, i, j) == [copy EXCEPT ![i] = copy[j], ![j] = copy[i]]

\* lines 224-227 from index i down (i counted from 1): every value
\* Math.floor(Math.random() * (i + 1)) can take is an outcome
RECURSIVE ShuffleFrom(_, _)
ShuffleFrom(copy, i) ==
    IF i <= 1 THEN {copy}
    ELSE UNION {ShuffleFrom(Swap(copy, i, j), i - 1) : j \in 1..i}

\* lines 222-229: the lists shuffle(arr) can return
shuffle(arr) == ShuffleFrom(arr, Len(arr))

\* sameCategory without the test e.id !== correctEvent.id
sameCategoryAnyId(correctEvent, pool) ==
    SelectSeq(pool, LAMBDA e :
        /\ e.category = correctEvent.category
        /\ TitleKey(e.title) # TitleKey(correctEvent.title))

\* lines 161-166
sameCategory(correctEvent, pool) ==
    SelectSeq(pool, LAMBDA e :
        /\ e.id # correctEvent.id
        /\ e.category = correctEvent.category
        /\ TitleKey(e.title) # TitleKey(correctEvent.title))

\* lines 168-173
otherCategory(correctEvent, pool) ==
    SelectSeq(pool, LAMBDA e :
        /\ e.id # correctEvent.id
        /\ e.category # correctEvent.category
        /\ TitleKey(e.title) # TitleKey(correctEvent.title))

\* the keys of the entries of a list, in order
TitleKeys(entries) ==
    ToArray([k \in 1..Len(entries) |-> TitleKey(entries[k].title)])

\* the indices at which the loop of lines 182-189 finds a key that is not
\* in used, while it runs: used holds correctClean and the keys met before
FreshIndices(keys, correctClean) ==
    {k \in 1..Len(keys) :
        /\ keys[k] # correctClean
        /\ \A j \in 1..(k - 1) : keys[j] # keys[k]}

\* the first count of the indices fresh: the loop stops at count decoys
FirstOf(fresh, count) ==
    {k \in fresh : Cardinality({j \in fresh : j <= k}) <= count}

\* the entries of shuffled whose title the loop of lines 182-189 pushes
TakenEntries(shuffled, correctClean, count) ==
    Pick(shuffled, FirstOf(FreshIndices(TitleKeys(shuffled), correctClean), count))

\* lines 192-201
genericFallbacks ==
    << <<"S","i","è","g","e"," ","d","e"," ","C","o","n","s","t","a","n","t","i","n","o","p","l","e">>,
       <<"R","é","v","o","l","t","e"," ","d","e","s"," ","C","a","n","u","t","s">>,
       <<"T","r","a","i","t","é"," ","d","e"," ","W","e","s","t","p","h","a","l","i","e">>,
       <<"B","a","t","a","i","l","l","e"," ","d","e"," ","V","e","r","d","u","n">>,
       <<"M","a","s","s","a","c","r","e"," ","d","e"," ","W","o","u","n","d","e","d"," ","K","n","e","e">>,
       <<"C","h","u","t","e"," ","d","e"," ","l","'","E","m","p","i","r","e"," ","r","o","m","a","i","n">>,
       <<"C","r","o","i","s","a","d","e"," ","d","e","s"," ","A","l","b","i","g","e","o","i","s">>,
       <<"D","é","c","l","a","r","a","t","i","o","n"," ","d","e"," ","B","a","l","f","o","u","r">> >>

\* GenericFresh without the test !used.has(...) of line 205
GenericFreshAll(used) == 1..Len(genericFallbacks)

\* the indices of the generic titles that are not in used
GenericFresh(used) ==
    {g \in 1..Len(genericFallbacks) : toLowerCase(genericFallbacks[g]) \notin used}

\* lines 203-210: the generic titles pushed when missing decoys are missing
GenericTitles(used, missing) ==
    Pick(genericFallbacks, FirstOf(GenericFresh(used), missing))

\* the titles of a list of entries, cleaned
CleanTitles(entries) ==
    ToArray([k \in 1..Len(entries) |-> cleanTitle(entries[k].title)])

\* lines 178-212 for the entries taken from shuffled
DecoysWith(taken, correctClean, count) ==
    Take(CleanTitles(taken)
           \o GenericTitles({correctClean} \cup Range(TitleKeys(taken)),
                            count - Len(taken)),
         count)

\* lines 148-213 for an outcome shuffled of line 176
generateDecoys(correctEvent, shuffled, count) ==
    DecoysWith(TakenEntries(shuffled, TitleKey(correctEvent.title), count),
               TitleKey(correctEvent.title), count)

(***************************************************************************)
(* prepareQuizQuestion on small pools                                      *)
(***************************************************************************)

\* the greatest number of entries of a pool
MaxPool == 5

\* the entries pools are made of: two events to guess (the first and the
\* last), titles that differ by the prefix or the case only, the same
\* title under two ids, an entry with the id of the first event under
\* another title, and a title of the generic list
QuizEntries ==
    << [id |-> 1, category |-> "shock", title |-> <<"(","1","5","7","2",")"," ","M","a","s","s","a","c","r","e">>],
       [id |-> 10, category |-> "shock", title |-> <<"m","a","s","s","a","c","r","e">>],
       [id |-> 11, category |-> "shock", title |-> <<"(","1","7","9","3",")"," ","T","e","r","r","e","u","r">>],
       [id |-> 12, category |-> "struggle", title |-> <<"T","e","r","r","e","u","r">>],
       [id |-> 1, category |-> "shock", title |-> <<"T","e","r","r","e","u","r">>],
       [id |-> 13, category |-> "shock", title |-> <<"R","a","f","l","e">>],
       [id |-> 14, category |-> "shock", title |-> <<"(","X","I","X","e",")"," ","P","o","g","r","o","m">>],
       [id |-> 15, category |-> "civilization", title |-> <<"s","i","è","g","e"," ","d","e"," ","C","o","n","s","t","a","n","t","i","n","o","p","l","e">>],
       [id |-> 2, category |-> "struggle", title |-> <<"R","é","v","o","l","t","e"," ","d","e","s"," ","C","a","n","u","t","s">>] >>

\* the events to guess
QuizEvents == {QuizEntries[1], QuizEntries[Len(QuizEntries)]}

\* the elements of s at the indices of the set S, in ascending order
PoolOf(S) == Pick(QuizEntries, S)

QuizPools ==
    {PoolOf(S) : S \in {T \in SUBSET (1..Len(QuizEntries)) : Cardinality(T) <= MaxPool}}

QuizInputs == {[event |-> e, pool |-> p] : e \in QuizEvents, p \in QuizPools}

InitQuiz ==
    /\ gridCache = {}
    /\ articleCache = <<>>
    /\ calls = [i \in Procs |-> IdleCall]
    /\ ncalls = 0
    /\ geoIssued = <<>>
    /\ scoredN = <<>>
    /\ writes = <<>>
    /\ returned = <<>>
    /\ args \in {Some(a) : a \in QuizInputs}
    /\ ret = Null

\* prepareQuizQuestion(event, pool) up to line 253: generateDecoys has
\* returned, for the outcomes same and other of its two shuffles; ret is
\* <<[shuffled, decoys, options]>>, options being Null until line 254
CallGenerateDecoys ==
    /\ args # Null
    /\ ret = Null
    /\ \E same \in shuffle(sameCategory(args[1].event, args[1].pool)) :
       \E other \in shuffle(otherCategory(args[1].event, args[1].pool)) :
           ret' = Some([shuffled |-> same \o other,
                        decoys |-> generateDecoys(args[1].event, same \o other, 3),
                        options |-> Null])
    /\ UNCHANGED <<gridCache, articleCache, calls, ncalls, geoIssued, scoredN,
                   writes, returned, args>>

\* line 254, the rest of prepareQuizQuestion:
\* options = shuffle([correctTitle, ...decoys])
ShuffleOptions ==
    /\ ret # Null
    /\ ret[1].options = Null
    /\ \E options \in shuffle(<<cleanTitle(args[1].event.title)>> \o ret[1].decoys) :
           ret' = Some([ret[1] EXCEPT !.options = Some(options)])
    /\ UNCHANGED <<gridCache, articleCache, calls, ncalls, geoIssued, scoredN,
                   writes, returned, args>>

NextQuiz == CallGenerateDecoys \/ ShuffleOptions

SpecQuiz == InitQuiz /\ [][NextQuiz]_vars

(***************************************************************************)
(* Masking (part_002:74-121)                                               *)
(***************************************************************************)

\* lines 75-81
STOP_WORDS ==
    { <<"d","e">>, <<"d","u">>, <<"d","e","s">>, <<"l","e">>, <<"l","a">>, <<"l","e","s">>, <<"u","n">>, <<"u","n","e">>,
      <<"a","u">>, <<"a","u","x">>, <<"e","n">>, <<"e","t">>, <<"o","u">>, <<"p","a","r">>, <<"p","o","u","r">>, <<"s","u","r">>,
      <<"d","a","n","s">>, <<"a","v","e","c">>, <<"s","a","n","s">>, <<"s","o","u","s">>, <<"e","n","t","r","e">>, <<"v","e","r","s">>,
      <<"q","u","i">>, <<"q","u","e">>, <<"d","o","n","t">>, <<"s","o","n">>, <<"s","e","s">>, <<"l","e","u","r">>, <<"c","e">>,
      <<"c","e","t","t","e">>, <<"c","e","s">>, <<"e","s","t">>, <<"é","t","é">>, <<"s","o","n","t">>, <<"f","u","t">>, <<"o","n","t">> }

\* the token that replaces the full title, and the one that replaces a word
FULL_MASK == <<"U+2588","U+2588","U+2588","U+2588","U+2588","U+2588">>

WORD_MASK == <<"U+2588","U+2588","U+2588","U+2588">>

\* the class of line 85: white space, ' - / , . : ; the backquote U+0060
\* and the dashes U+2013 and U+2014 (these characters and the block
\* U+2588 of the mask tokens are written U+xxxx)
IsSeparator(c) ==
    IsSpace(c) \/ c \in {"'", "U+0060", "-", "U+2013", "U+2014", "/", ",", ".", ":", ";"}

\* [a-zA-ZÀ-ÿ] of line 86, for the characters the texts use
IsLetter(c) == c \in AsciiLetters \/ c \in Range(UpperChars) \/ c \in Range(LowerChars)

\* /\(\d{1,4}(?:\s*av\.?\s*J\.?-?C\.?)?\)\s*/ matches t at p: the position
\* after the match, or 0
YearParenEnd(t, p) ==
    IF MatchAt(t, <<"(">>, p) /\ DigitRun(t, p + 1) \in 1..4
    THEN AfterPrefixTail(t, p + 1 + DigitRun(t, p + 1))
    ELSE 0

\* line 84: t.replace(/\(\d{1,4}(...)?\)\s*/g, ""), from position p on
RECURSIVE DropYearParens(_, _)
DropYearParens(t, p) ==
    IF p > Len(t) THEN <<>>
    ELSE IF YearParenEnd(t, p) # 0 THEN DropYearParens(t, YearParenEnd(t, p))
    ELSE <<t[p]>> \o DropYearParens(t, p + 1)

\* the first position >= p of t that holds a separator, Len(t)+1 without
RECURSIVE PieceEnd(_, _)
PieceEnd(t, p) ==
    IF p <= Len(t) /\ ~IsSeparator(t[p]) THEN PieceEnd(t, p + 1) ELSE p

\* line 85: the non-empty pieces of t.split(/[...]+/), in
\* order (the empty pieces do not pass the filter of line 87)
Pieces(t) ==
    ToArray([k \in 1..Cardinality({p \in 1..Len(t) :
                                      /\ ~IsSeparator(t[p])
                                      /\ p = 1 \/ IsSeparator(t[p - 1])}) |->
                SubSeq(t,
                       Ascending({p \in 1..Len(t) :
                                    /\ ~IsSeparator(t[p])
                                    /\ p = 1 \/ IsSeparator(t[p - 1])})[k],
                       PieceEnd(t, Ascending({p \in 1..Len(t) :
                                    /\ ~IsSeparator(t[p])
                                    /\ p = 1 \/ IsSeparator(t[p - 1])})[k]) - 1)])

\* line 86: w.replace(/[^a-zA-ZÀ-ÿ]/g, "")
LettersOf(w) == SelectSeq(w, IsLetter)

\* lines 83-87
extractSignificantWords(title) ==
    SelectSeq(ToArray([k \in 1..Len(Pieces(DropYearParens(title, 1))) |->
                          LettersOf(Pieces(DropYearParens(title, 1))[k])]),
              LAMBDA w : Len(w) >= 4 /\ toLowerCase(w) \notin STOP_WORDS)

\* the pattern pat (in lower case) matches t at p under the flag i, between
\* two \b when bounded
PatternAt(t, p, pat, bounded) ==
    /\ MatchAtI(t, pat, p)
    /\ bounded => WordBoundary(t, p) /\ WordBoundary(t, p + Len(pat))

\* t.replace(new RegExp(pattern, "gi"), token) from position p on: the
\* matches are taken from left to right and do not overlap
RECURSIVE ReplaceFrom(_, _, _, _, _)
ReplaceFrom(t, p, pat, token, bounded) ==
    IF p > Len(t) THEN <<>>
    ELSE IF PatternAt(t, p, pat, bounded)
    THEN token \o ReplaceFrom(t, p + Len(pat), pat, token, bounded)
    ELSE <<t[p]>> \o ReplaceFrom(t, p + 1, pat, token, bounded)

\* lines 104-107
MaskTitle(masked, clean) ==
    IF Len(clean) > 0
    THEN ReplaceFrom(masked, 1, toLowerCase(clean), FULL_MASK, FALSE)
    ELSE masked

\* lines 110-114
RECURSIVE MaskWords(_, _)
MaskWords(masked, words) ==
    IF words = <<>> THEN masked
    ELSE MaskWords(ReplaceFrom(masked, 1, toLowerCase(Head(words)), WORD_MASK, TRUE),
                   Tail(words))

\* lines 94-117
maskDescription(description, rawTitle) ==
    MaskWords(MaskTitle(description, cleanTitle(rawTitle)),
              extractSignificantWords(cleanTitle(rawTitle)))

(***************************************************************************)
(* maskDescription applied once and twice                                  *)
(***************************************************************************)

MaskTitles ==
    { <<"(","1","5","6","2",")"," ","M","a","s","s","a","c","r","e"," ","d","e"," ","W","a","s","s","y">>, <<"C","o","u","p"," ","d","'","É","t","a","t">>, <<"(","X","I","X","e",")"," ","C","o","m","m","u","n","e"," ","d","e"," ","P","a","r","i","s">>,
      <<"R","a","f","l","e">>, <<"P","a","i","x"," ","d","e","s"," ","D","a","m","e","s">>, <<"U+2588">> }

MaskDescriptions ==
    { <<>>, <<"L","e"," ","m","a","s","s","a","c","r","e"," ","d","e"," ","W","a","s","s","y"," ","a"," ","l","i","e","u"," ","e","n"," ","1","5","6","2",".">>, <<"M","A","S","S","A","C","R","E"," ","D","E"," ","W","A","S","S","Y",":"," ","W","a","s","s","y","!">>,
      <<"U","n"," ","m","a","s","s","a","c","r","e","u","r"," ","à"," ","W","a","s","s","y","-","s","u","r","-","B","l","a","i","s","e",".">>, <<"L","e"," ","c","o","u","p"," ","d","'","É","t","a","t"," ","r","é","u","s","s","i","t",";"," ","q","u","e","l"," ","c","o","u","p",".">>,
      <<"c","o","u","p","é","t","a","t"," ","e","t"," ","É","t","a","t","c","o","u","p">>, <<"L","a"," ","C","o","m","m","u","n","e"," ","d","e"," ","P","a","r","i","s",","," ","à"," ","P","a","r","i","s",".">>,
      <<"L","a"," ","r","a","f","l","e",","," ","l","e","s"," ","r","a","f","l","e","s">>, <<"L","a"," ","p","a","i","x"," ","d","e","s"," ","d","a","m","e","s"," ","v","a","u","t"," ","l","a"," ","P","a","i","x",";"," ","c","e","s"," ","D","a","m","e","s",".">>,
      <<"L","e"," ","s","i","g","n","e"," ","U+2588"," ","e","s","t"," ","u","n"," ","b","l","o","c",".">> }

MaskInputs ==
    {[description |-> d, title |-> t] : d \in MaskDescriptions, t \in MaskTitles}

InitMask ==
    /\ gridCache = {}
    /\ articleCache = <<>>
    /\ calls = [i \in Procs |-> IdleCall]
    /\ ncalls = 0
    /\ geoIssued = <<>>
    /\ scoredN = <<>>
    /\ writes = <<>>
    /\ returned = <<>>
    /\ args \in {Some(a) : a \in MaskInputs}
    /\ ret = Null

\* maskDescription(description, title) returns once, and maskDescription
\* called on once with the same title returns twice
CallMaskDescription ==
    /\ args # Null
    /\ ret = Null
    /\ ret' = Some([once |-> maskDescription(args[1].description, args[1].title),
                    twice |-> maskDescription(
                                  maskDescription(args[1].description, args[1].title),
                                  args[1].title)])
    /\ UNCHANGED <<gridCache, articleCache, calls, ncalls, geoIssued, scoredN,
                   writes, returned, args>>

NextMask == CallMaskDescription

SpecMask == InitMask /\ [][NextMask]_vars

(***************************************************************************)
(* Properties                                                              *)
(***************************************************************************)

\* the scoring of candidate p in the invocation c, from the extracts and
\* the language counts c has received
CallScoring(c, p) == ScoringTable[p][(p \in c.extracts)][(p \in c.langCounts)]

\* candidate p of the invocation c is rejected by computeScore or removed
\* by the origins-minor filter
Dropped(c, p) ==
    \/ CallScoring(c, p).sc.rejected
    \/ /\ CallScoring(c, p).sc.cat = "origins"
       /\ CallScoring(c, p).langs < 15
       /\ p \notin c.kwPageIds

\* the step in which invocation i scores its candidates and returns
ScoreStep(i) == calls[i].pc = "phase2" /\ calls'[i].pc = "done"

\* the keys of the five grid points of a call at (lat, lon)
GridKeysOf(lat, lon) == Range(GridKeys(buildGrid(lat, lon)))

\* everything the searches of the invocation c have brought, in order
Found(c) == Range(Flatten(c.geoRes \o c.kwRes))

\* C1: every list returned by fetchWikiEvents holds at most 30 events, is
\* ordered by score in non-increasing order, and each of its events is a
\* candidate of that call that computeScore did not reject in that call.
C1_RankedTop30 ==
    \A i \in Procs :
        calls[i].pc = "done" =>
            /\ Len(calls[i].result) <= 30
            /\ \A k \in 1..(Len(calls[i].result) - 1) :
                   calls[i].result[k].score >= calls[i].result[k + 1].score
            /\ \A k \in 1..Len(calls[i].result) :
                   /\ calls[i].result[k].id \in Range(calls[i].geoResults)
                   /\ ~CallScoring(calls[i], calls[i].result[k].id).sc.rejected

\* C1 witness: a call has returned 30 events of different scores although
\* it accepted more than 30 candidates and rejected others
C1_Witness ==
    \E i \in Procs :
        /\ calls[i].pc = "done"
        /\ Len(calls[i].result) = 30
        /\ calls[i].result[1].score > calls[i].result[30].score
        /\ Cardinality({p \in Range(calls[i].geoResults) :
                          ~Dropped(calls[i], p)}) > 30
        /\ \E p \in Range(calls[i].geoResults) :
               CallScoring(calls[i], p).sc.rejected

\* C2: also when invocations overlap, computeScore runs at most once for
\* an article id and articleCache.set is called at most once for it.
C2_ScoredAndWrittenOnce ==
    /\ \A p \in DOMAIN scoredN : scoredN[p] <= 1
    /\ \A p \in DOMAIN writes : writes[p] <= 1

\* C3: in calls that do not overlap, no candidate of a call is a key of
\* articleCache, no article id is in two returned lists and none is twice
\* in one list.
C3_NoRepeatedCandidate ==
    /\ \A i \in Procs :
           calls[i].pc = "phase2" =>
               Range(calls[i].geoResults) \cap DOMAIN articleCache = {}
    /\ \A p \in DOMAIN returned : returned[p] <= 1
    /\ \A i \in Procs :
           \A j, k \in 1..Len(calls[i].result) :
               calls[i].result[j].id = calls[i].result[k].id => j = k

\* C3 witness: the second of two calls has returned events although its
\* searches brought again an article the first call returned and one the
\* first call tombstoned; neither became a candidate
C3_Witness ==
    /\ calls[1].pc = "done"
    /\ calls[2].pc = "done"
    /\ calls[2].result # <<>>
    /\ \E p \in Found(calls[2]) \cap Range(Ids(calls[1].result)) :
           p \notin Range(calls[2].geoResults) /\ returned[p] = 1
    /\ \E q \in Found(calls[2]) \cap Range(calls[1].geoResults) :
           q \notin Range(calls[2].geoResults) /\ articleCache[q] = Null

\* C4: a call whose five grid keys (coordinates rounded to 2 decimals) are
\* all in gridCache returns [] at once: it issues no request and leaves
\* gridCache and articleCache as they are.
C4_AllCachedReturnsEmpty ==
    [][\A i \in Procs :
          (/\ calls[i].pc = "idle"
           /\ calls'[i].pc # "idle"
           /\ GridKeysOf(calls'[i].lat, calls'[i].lon) \subseteq gridCache)
          => /\ calls'[i].pc = "done"
             /\ calls'[i].result = <<>>
             /\ calls'[i].nreq = 0
             /\ gridCache' = gridCache
             /\ articleCache' = articleCache
             /\ geoIssued' = geoIssued]_vars

\* C4 witness: a second call at the coordinates of the first has returned
\* [] without a request while the first is still awaiting its searches
C4_Witness ==
    /\ calls[1].pc = "phase1"
    /\ calls[2].pc = "done"
    /\ calls[2].lat = calls[1].lat
    /\ calls[2].lon = calls[1].lon
    /\ calls[2].result = <<>>
    /\ calls[2].nreq = 0

\* C5: from the moment a call is made, before any response, the keys of
\* all its grid points are in gridCache and stay there; so a later call
\* with the same coordinates returns [] without a request, whatever
\* happened to the requests of the first.
C5_GridMarkedBeforeResponses ==
    /\ \A i \in Procs :
           calls[i].pc # "idle" =>
               GridKeysOf(calls[i].lat, calls[i].lon) \subseteq gridCache
    /\ \A i, j \in Procs :
           (/\ i < j
            /\ calls[j].pc # "idle"
            /\ calls[j].lat = calls[i].lat
            /\ calls[j].lon = calls[i].lon)
           => /\ calls[j].pc = "done"
              /\ calls[j].result = <<>>
              /\ calls[j].nreq = 0

\* C5 witness: every request of the first call failed (its searches
\* brought nothing although articles are there to be found), it returned
\* [], and the next call at the same coordinates returned [] without a
\* request
C5_Witness ==
    /\ calls[1].pc = "done"
    /\ calls[1].nreq > 0
    /\ Found(calls[1]) = {}
    /\ GeoWorld(calls[1].lat, calls[1].lon) # <<>>
    /\ calls[1].result = <<>>
    /\ calls[2].pc = "done"
    /\ calls[2].lat = calls[1].lat
    /\ calls[2].lon = calls[1].lon
    /\ calls[2].nreq = 0
    /\ calls[2].result = <<>>

\* C6: no step removes a key from gridCache, no grid key is ever the
\* subject of more than one geosearch request, and no step issues a
\* geosearch for a key that gridCache holds.
C6_OneGeosearchPerKey ==
    [][/\ gridCache \subseteq gridCache'
       /\ \A k \in DOMAIN geoIssued' : geoIssued'[k] <= 1
       /\ \A k \in gridCache :
              k \in DOMAIN geoIssued /\ geoIssued'[k] = geoIssued[k]]_vars

\* C6 witness: two overlapping calls share some grid keys but not all; the
\* second has issued geosearches for its other points only
C6_Witness ==
    /\ calls[1].pc = "phase1"
    /\ calls[2].pc = "phase1"
    /\ Len(calls[2].newPoints) \in 1..4
    /\ Cardinality(gridCache) = 5 + Len(calls[2].newPoints)
    /\ \A k \in gridCache : geoIssued[k] = 1

\* C7: when a call has scored its candidates, articleCache has an entry
\* for each of them: null if computeScore rejected it or the origins-minor
\* filter removed it, and then the list returned has no event for it; else
\* the event built for it.
C7_EveryCandidateCached ==
    [][\A i \in Procs :
          ScoreStep(i) =>
              \A p \in Range(calls[i].geoResults) :
                  /\ p \in DOMAIN articleCache'
                  /\ IF Dropped(calls[i], p)
                     THEN /\ articleCache'[p] = Null
                          /\ p \notin Range(Ids(calls'[i].result))
                     ELSE /\ articleCache'[p] # Null
                          /\ articleCache'[p][1].id = p
                          /\ articleCache'[p][1].category
                                = CallScoring(calls[i], p).sc.cat
                          /\ articleCache'[p][1].score
                                = CallScoring(calls[i], p).finalScore]_vars

\* C7 witness: a call has returned after scoring a candidate that
\* computeScore rejected, one the origins-minor filter removed and one
\* that it returned
C7_Witness ==
    \E i \in Procs :
        /\ calls[i].pc = "done"
        /\ \E p \in Range(calls[i].geoResults) :
               CallScoring(calls[i], p).sc.rejected /\ articleCache[p] = Null
        /\ \E q \in Range(calls[i].geoResults) :
               /\ ~CallScoring(calls[i], q).sc.rejected
               /\ Dropped(calls[i], q)
               /\ articleCache[q] = Null
        /\ \E r \in Range(Ids(calls[i].result)) :
               ~Dropped(calls[i], r) /\ articleCache[r] # Null

\* C8: whichever upstream calls fail, no invocation ends in an error, and
\* what a call contributes is either what its successful response holds or
\* nothing.
C8_FailSoft ==
    \A i \in Procs :
        /\ calls[i].pc # "threw"
        /\ \A k \in 1..Len(calls[i].geoRes) :
               calls[i].geoRes[k]
                  \in {<<>>, Take(GeoWorld(calls[i].newPoints[k][1],
                                           calls[i].newPoints[k][2]), 150)}
        /\ \A k \in 1..Len(calls[i].kwRes) :
               \/ calls[i].kwRes[k] = <<>>
               \/ Range(calls[i].kwRes[k])
                     = {p \in Range(Take(KwWorld(SrSearch(KEYWORD_SEARCHES[k],
                                                          calls[i].lat,
                                                          calls[i].lon)), 5)) :
                          PageWorld(p).coords # Null}
        /\ calls[i].extracts
              \in {{}, {p \in Range(calls[i].geoResults) : PageWorld(p).ext # Null}}
        /\ calls[i].langCounts
              \in {{}, {p \in Range(calls[i].geoResults) : PageWorld(p).langs # Null}}

\* C8 witness: a call has returned a list of events although one of its
\* geosearches, one of its keyword searches, its extracts request and its
\* language links request failed
C8_Witness ==
    \E i \in Procs :
        /\ calls[i].pc = "done"
        /\ calls[i].result # <<>>
        /\ \E k \in 1..Len(calls[i].geoRes) :
               /\ calls[i].geoRes[k] = <<>>
               /\ GeoWorld(calls[i].newPoints[k][1],
                           calls[i].newPoints[k][2]) # <<>>
        /\ \E k \in 1..Len(calls[i].kwRes) :
               /\ calls[i].kwRes[k] = <<>>
               /\ KwWorld(SrSearch(KEYWORD_SEARCHES[k], calls[i].lat,
                                   calls[i].lon)) # <<>>
        /\ \E p \in Range(calls[i].geoResults) :
               /\ PageWorld(p).ext # Null
               /\ PageWorld(p).langs # Null
        /\ calls[i].extracts = {}
        /\ calls[i].langCounts = {}

\* C9 as stated: every event of a returned list is for a candidate whose
\* extract was in the response of the extracts request.
C9_MissingExtractDropped ==
    \A i \in Procs :
        calls[i].pc = "done" =>
            \A k \in 1..Len(calls[i].result) :
                calls[i].result[k].id \in calls[i].extracts

\* the title of the search result of p and an empty extract: what
\* computeScore returns for them, and the title formatTitle gives
TitleOnly ==
    [p \in PageIdSet |->
        [l \in BOOLEAN |->
            [sc    |-> computeScore(PageWorld(p).title, <<>>, LangsOf(p, l)),
             title |-> formatTitle(PageWorld(p).title, Null, <<>>)]]]

\* C9 amended: a candidate whose extract is missing is scored on the title
\* of its search result and an empty extract.  It is tombstoned when
\* computeScore rejects that or the origins-minor filter removes it; else
\* it gets an event built from that title, with no year and the category
\* computeScore gave.
C9_MissingExtractScoredOnTitle ==
    [][\A i \in Procs :
          ScoreStep(i) =>
              \A p \in Range(calls[i].geoResults) \ calls[i].extracts :
                  IF \/ TitleOnly[p][(p \in calls[i].langCounts)].sc.rejected
                     \/ /\ TitleOnly[p][(p \in calls[i].langCounts)].sc.cat
                              = "origins"
                        /\ LangsOf(p, p \in calls[i].langCounts) < 15
                        /\ p \notin calls[i].kwPageIds
                  THEN articleCache'[p] = Null
                  ELSE /\ articleCache'[p] # Null
                       /\ articleCache'[p][1].title
                             = TitleOnly[p][(p \in calls[i].langCounts)].title
                       /\ articleCache'[p][1].year = Null
                       /\ articleCache'[p][1].category
                             = TitleOnly[p][(p \in calls[i].langCounts)].sc.cat]_vars

\* C9 witness: a call has returned an event for a candidate whose extract
\* was missing, and has tombstoned another such candidate
C9_Witness ==
    \E i \in Procs :
        /\ calls[i].pc = "done"
        /\ \E k \in 1..Len(calls[i].result) :
               /\ calls[i].result[k].id \notin calls[i].extracts
               /\ calls[i].result[k].year = Null
        /\ \E q \in Range(calls[i].geoResults) \ calls[i].extracts :
               articleCache[q] = Null

\* the lowercased title plus extract of the call of computeScore
ScoreFullText == FullText(args[1].title, args[1].extract)

\* C10: whenever the lowercased title plus extract holds a memorial
\* keyword, computeScore returns rejected = false, category shock and the
\* score (100 + 15 * number of impact keywords present) * 10, which is at
\* least 1000, whatever the other rules would decide.
C10_MemorialBoost ==
    (ret # Null /\ \E k \in Range(MEMORIAL_KW) : Includes(ScoreFullText, k))
    => /\ ret[1].rejected = FALSE
       /\ ret[1].cat = "shock"
       /\ ret[1].score
             = (100 + 15 * Cardinality({k \in Range(IMPACT_KW) :
                                          Includes(ScoreFullText, k)})) * 10
       /\ ret[1].score >= 1000

\* C10 witness: computeScore has returned for a text with a memorial
\* keyword that the church rule and the sports rule would both reject and
\* that holds no date
C10_Witness ==
    /\ ret # Null
    /\ \E k \in Range(MEMORIAL_KW) : Includes(ScoreFullText, k)
    /\ countOccurrences(ScoreFullText, CHURCH_WORDS) > 3
    /\ ~hasVerb(ScoreFullText)
    /\ \E k \in Range(SPORT_BLACKLIST) : Includes(ScoreFullText, k)
    /\ args[1].langs < 20
    /\ extractYear(args[1].extract) = Null
    /\ ret[1].score = 1000

\* the text of the call of computeScore holds a keyword of the list ks
ScoreTextHas(ks) == \E k \in Range(ks) : Includes(ScoreFullText, k)

\* the text of the call of computeScore holds a keyword of the sports
\* blacklist and none of the sports exceptions, and langs is below 20
SportsCase ==
    /\ ret # Null
    /\ ScoreTextHas(SPORT_BLACKLIST)
    /\ ~ScoreTextHas(SPORT_EXCEPTIONS)
    /\ args[1].langs < 20

\* C11 as stated: computeScore rejects every article whose text holds a
\* sports-blacklist keyword and no sports-exception keyword when its
\* language count is below 20.
C11_SportsAlwaysRejected == SportsCase => ret[1].rejected

\* C11 amended: such an article is rejected unless its text holds a
\* memorial keyword; with a memorial keyword it is accepted.
C11_SportsRejectedUnlessMemorial ==
    SportsCase => (ret[1].rejected <=> ~ScoreTextHas(MEMORIAL_KW))

\* C11 witness: computeScore has rejected by the sports rule an article
\* with a sports keyword, no exception, no memorial keyword and fewer than
\* 20 languages, which the church rule lets pass
C11_Witness ==
    /\ SportsCase
    /\ ~ScoreTextHas(MEMORIAL_KW)
    /\ countOccurrences(ScoreFullText, CHURCH_WORDS) <= 3
    /\ ret[1].rejected
    /\ ret[1].reason = "sport"
    /\ ret[1].score = -100

\* C12: in every list fetchWikiEvents returns, the score of an event that
\* computeScore did not accept by the memorial rule is round(baseScore *
\* (1 + 0.3 * log2(max(1, langs)))), and the score of an event accepted by
\* the memorial rule is its baseScore.
C12_MultiplierUnlessMemorial ==
    \A i \in Procs :
        calls[i].pc = "done" =>
            \A k \in 1..Len(calls[i].result) :
                calls[i].result[k].score
                    = IF CallScoring(calls[i], calls[i].result[k].id).sc.reason
                            = "memorial"
                      THEN CallScoring(calls[i], calls[i].result[k].id).sc.score
                      ELSE NotorietyRound(
                               CallScoring(calls[i], calls[i].result[k].id).sc.score,
                               Max2(1, CallScoring(calls[i],
                                                   calls[i].result[k].id).langs))

\* the lowercased title of the call of computeScore holds a keyword of ks
ScoreTitleHas(ks) ==
    \E k \in Range(ks) : Includes(toLowerCase(args[1].title), k)

\* the score before the origins reduction that lines 297-331 give on the
\* base-scoring path when the title bonus is bonus
BasePathSum(bonus) ==
    10 + classify(ScoreFullText).catScore + bonus
    - (IF ScoreTextHas(SPORT_BLACKLIST) /\ ~ScoreTextHas(SPORT_EXCEPTIONS)
       THEN 50 ELSE 0)
    - (IF ScoreTextHas(GEO_PENALTIES) THEN 10 ELSE 0)
    + 15 * Cardinality({k \in Range(IMPACT_KW) : Includes(ScoreFullText, k)})
    + (IF \E v \in Range(ALL_VERBS) : Includes(ScoreFullText, v)
       THEN 10 ELSE 0)
    + (IF Len(args[1].extract) > 200 THEN 5 ELSE 0)
    + (IF Len(args[1].extract) > 500 THEN 5 ELSE 0)

\* the score computeScore returns on the base-scoring path when the title
\* bonus is bonus
BasePathScore(bonus) ==
    IF ret[1].cat = "origins" /\ args[1].langs < 30
    THEN RoundDiv(BasePathSum(bonus), 5)
    ELSE BasePathSum(bonus)

\* computeScore has returned from the base-scoring path (line 338)
OnBasePath == ret # Null /\ ret[1].reason = "base"

\* C13 as stated: on the base-scoring path the score holds the +500 title
\* bonus exactly when the title holds a keyword of shock, civilization,
\* struggle or origins.
C13_BonusAnyCategory ==
    OnBasePath =>
        ret[1].score
            = BasePathScore(IF \/ ScoreTitleHas(SHOCK_KW)
                               \/ ScoreTitleHas(CIVILIZATION_KW)
                               \/ ScoreTitleHas(STRUGGLE_KW)
                               \/ ScoreTitleHas(ORIGINS_KW)
                            THEN 500 ELSE 0)

\* C13 amended: on the base-scoring path the score holds the +500 title
\* bonus exactly when the title holds a keyword of shock, civilization or
\* struggle; an origins keyword in the title adds nothing.
C13_BonusThreeCategories ==
    OnBasePath =>
        ret[1].score
            = BasePathScore(IF \/ ScoreTitleHas(SHOCK_KW)
                               \/ ScoreTitleHas(CIVILIZATION_KW)
                               \/ ScoreTitleHas(STRUGGLE_KW)
                            THEN 500 ELSE 0)

\* C13 witness: computeScore has returned from the base-scoring path for a
\* title whose only category keyword is an origins keyword, and the score
\* holds no title bonus
C13_Witness ==
    /\ OnBasePath
    /\ ScoreTitleHas(ORIGINS_KW)
    /\ ~ScoreTitleHas(SHOCK_KW)
    /\ ~ScoreTitleHas(CIVILIZATION_KW)
    /\ ~ScoreTitleHas(STRUGGLE_KW)
    /\ ret[1].score = BasePathScore(0)
    /\ ret[1].score # BasePathScore(500)

\* the text of the call of computeScore holds no memorial keyword, no
\* action-verb stem and no shock or struggle keyword
ChurchCase ==
    /\ ret # Null
    /\ ~ScoreTextHas(MEMORIAL_KW)
    /\ ~ScoreTextHas(ALL_VERBS)
    /\ ~ScoreTextHas(SHOCK_KW)
    /\ ~ScoreTextHas(STRUGGLE_KW)

\* C14: for a text without a memorial keyword, computeScore returns
\* rejected = true with score 0 whenever the church words occur more than
\* 3 times in title plus extract and neither an action-verb stem nor a
\* shock or struggle keyword occurs; with 3 occurrences or fewer the church
\* rule is never the one that rejects.
C14_ChurchRule ==
    /\ (ChurchCase /\ countOccurrences(ScoreFullText, CHURCH_WORDS) > 3)
       => (ret[1].rejected /\ ret[1].score = 0)
    /\ (ret # Null /\ countOccurrences(ScoreFullText, CHURCH_WORDS) <= 3)
       => ret[1].reason # "church"

\* C14 witness: computeScore has rejected by the church rule a text with
\* exactly 4 occurrences of the church words, no memorial keyword, no
\* action-verb stem and no shock or struggle keyword
C14_Witness ==
    /\ ChurchCase
    /\ countOccurrences(ScoreFullText, CHURCH_WORDS) = 4
    /\ ret[1].rejected
    /\ ret[1].score = 0
    /\ ret[1].reason = "church"

\* the call of computeScore passes the memorial, church, sports and
\* geography rules (lines 256-295 do not return)
PassesEarlyRules ==
    /\ ret # Null
    /\ ~ScoreTextHas(MEMORIAL_KW)
    /\ ~(/\ countOccurrences(ScoreFullText, CHURCH_WORDS) > 3
         /\ ~ScoreTextHas(ALL_VERBS)
         /\ ~ScoreTextHas(SHOCK_KW)
         /\ ~ScoreTextHas(STRUGGLE_KW))
    /\ ~(/\ ScoreTextHas(SPORT_BLACKLIST)
         /\ ~ScoreTextHas(SPORT_EXCEPTIONS)
         /\ args[1].langs < 20)
    /\ ~(/\ ScoreTextHas(GEO_PENALTIES)
         /\ classify(ScoreFullText).catScore = 0)

\* C15: a call of computeScore that passes the memorial, church, sports
\* and geography rules is rejected when no year can be extracted from the
\* extract and no category keyword matched; so every accepted result that
\* is not memorial-boosted has an extractable year or a category score
\* above 0.
C15_NoDateNoKeywordRejected ==
    /\ (/\ PassesEarlyRules
        /\ extractYear(args[1].extract) = Null
        /\ classify(ScoreFullText).catScore = 0)
       => ret[1].rejected
    /\ (ret # Null /\ ~ret[1].rejected /\ ~ScoreTextHas(MEMORIAL_KW))
       => \/ extractYear(args[1].extract) # Null
          \/ classify(ScoreFullText).catScore > 0

\* C15 witness: computeScore has rejected, by the test of lines 324-327, a
\* text that passes the memorial, church, sports and geography rules,
\* holds no year and matches no category keyword
C15_Witness ==
    /\ PassesEarlyRules
    /\ extractYear(args[1].extract) = Null
    /\ classify(ScoreFullText).catScore = 0
    /\ ret[1].rejected
    /\ ret[1].reason = "nodate"
    /\ ret[1].score = 0

\* candidate p of the invocation c is accepted by computeScore with
\* category origins
AcceptedOrigins(c, p) ==
    /\ p \in Range(c.geoResults)
    /\ ~CallScoring(c, p).sc.rejected
    /\ CallScoring(c, p).sc.cat = "origins"

\* the list result holds an event of page p with isIncontournable = true
ReturnedIncontournable(result, p) ==
    \E k \in 1..Len(result) :
        result[k].id = p /\ result[k].isIncontournable

\* the entry articleCache.set stored for p is an event with
\* isIncontournable = true
CachedIncontournable(cache, p) ==
    /\ p \in DOMAIN cache
    /\ cache[p] # Null
    /\ cache[p][1].isIncontournable

\* the list result is full and none of its events has a score below s
CutAt(result, s) ==
    /\ Len(result) = MAX_RESULTS
    /\ \A k \in 1..Len(result) : result[k].score >= s

\* C16 as stated: when an invocation scores its candidates, an accepted
\* origins candidate with fewer than 15 languages that no keyword search
\* found is tombstoned and left out of the result, and an accepted origins
\* candidate that a keyword search found is returned with
\* isIncontournable = true, whatever its language count.
C16_KeywordOriginsReturned ==
    [][\A i \in Procs : ScoreStep(i) =>
          \A p \in PageIdSet : AcceptedOrigins(calls[i], p) =>
              /\ (p \notin calls[i].kwPageIds /\ CallScoring(calls[i], p).langs < 15)
                 => /\ articleCache'[p] = Null
                    /\ p \notin Range(Ids(calls'[i].result))
              /\ p \in calls[i].kwPageIds
                 => ReturnedIncontournable(calls'[i].result, p)]_vars

\* C16 amended: when an invocation scores its candidates, an accepted
\* origins candidate with fewer than 15 languages that no keyword search
\* found is tombstoned and left out of the result; an accepted origins
\* candidate that a keyword search found is cached as an event with
\* isIncontournable = true, whatever its language count, and it is returned
\* unless the result is full of 30 events none of which scores lower.
C16_KeywordOriginsSurvive ==
    [][\A i \in Procs : ScoreStep(i) =>
          \A p \in PageIdSet : AcceptedOrigins(calls[i], p) =>
              /\ (p \notin calls[i].kwPageIds /\ CallScoring(calls[i], p).langs < 15)
                 => /\ articleCache'[p] = Null
                    /\ p \notin Range(Ids(calls'[i].result))
              /\ p \in calls[i].kwPageIds
                 => /\ CachedIncontournable(articleCache', p)
                    /\ \/ ReturnedIncontournable(calls'[i].result, p)
                       \/ CutAt(calls'[i].result,
                                CallScoring(calls[i], p).finalScore)]_vars

\* C16 witness: an invocation has returned an origins event with fewer
\* than 15 languages and isIncontournable = true, its keyword search
\* having found the article
C16_Witness ==
    \E i \in Procs :
        /\ calls[i].pc = "done"
        /\ \E k \in 1..Len(calls[i].result) :
               /\ calls[i].result[k].category = "origins"
               /\ calls[i].result[k].notorietyScore < 15
               /\ calls[i].result[k].isIncontournable
               /\ calls[i].result[k].id \in calls[i].kwPageIds

\* the weighted hit counts of the text classify is called with, counted
\* from the keyword lists
ShockWeight ==
    25 * Cardinality({k \in Range(SHOCK_KW) : Includes(args[1], k)})
    + 20 * Cardinality({v \in Range(SHOCK_VERBS) : Includes(args[1], v)})

CivilizationWeight ==
    12 * Cardinality({k \in Range(CIVILIZATION_KW) : Includes(args[1], k)})

StruggleWeight ==
    20 * Cardinality({k \in Range(STRUGGLE_KW) : Includes(args[1], k)})

OriginsWeight ==
    5 * Cardinality({k \in Range(ORIGINS_KW) : Includes(args[1], k)})

\* the weighted hit count of the category cat
WeightOf(cat) ==
    CASE cat = "shock"        -> ShockWeight
      [] cat = "civilization" -> CivilizationWeight
      [] cat = "struggle"     -> StruggleWeight
      [] cat = "origins"      -> OriginsWeight

Categories == {"shock", "civilization", "struggle", "origins"}

\* C17: every call of classify returns a category whose weighted hit count
\* (shock keywords * 25 + shock verb stems * 20, civilization * 12,
\* struggle * 20, origins * 5) is the highest of the four, together with
\* that count; it returns civilization with score 0 when the four counts
\* are 0; and repeated calls on the same text return the same result.
C17_ClassifyHighestWeight ==
    /\ \A n \in 1..Len(ret) :
           /\ ret[n].cat \in Categories
           /\ ret[n].catScore = WeightOf(ret[n].cat)
           /\ \A c \in Categories : WeightOf(c) <= ret[n].catScore
           /\ (\A c \in Categories : WeightOf(c) = 0)
              => (ret[n].cat = "civilization" /\ ret[n].catScore = 0)
    /\ \A m, n \in 1..Len(ret) : ret[m] = ret[n]

\* C17 witness: classify has been called twice on a text that hits origins
\* keywords and keywords of another category with a higher weighted
\* count, and has returned that category both times
C17_Witness ==
    /\ Len(ret) = 2
    /\ OriginsWeight > 0
    /\ \E c \in Categories : WeightOf(c) > OriginsWeight
    /\ ret[1].cat # "origins"
    /\ ret[1].catScore > OriginsWeight
    /\ ret[2] = ret[1]

\* C18: for every hintsUsed and wasQCM, calculatePoints(false, hintsUsed,
\* wasQCM) returns points 0 and correct false, with hintsUsed and wasQCM
\* as they were passed.
C18_WrongAnswerZero ==
    \A n \in 1..Len(ret) :
        ~ret[n].in.correct =>
            ret[n].out = [points    |-> 0,
                          correct   |-> FALSE,
                          hintsUsed |-> ret[n].in.hintsUsed,
                          wasQCM    |-> ret[n].in.wasQCM]

\* C18 witness: calculatePoints has returned for a wrong answer given in
\* multiple-choice mode after 3 hints
C18_Witness ==
    \E n \in 1..Len(ret) :
        /\ ret[n].in = [correct |-> FALSE, hintsUsed |-> 3, wasQCM |-> TRUE]
        /\ ret[n].out.points = 0
        /\ ret[n].out.hintsUsed = 3
        /\ ret[n].out.wasQCM

\* C19: for each wasQCM, the points of calculatePoints(true, hintsUsed,
\* wasQCM) do not increase when hintsUsed increases, and they are at least
\* 10 for every hintsUsed >= 0.
C19_PointsMonotoneFloor ==
    /\ \A m, n \in 1..Len(ret) :
           (/\ ret[m].in.correct
            /\ ret[n].in.correct
            /\ ret[m].in.wasQCM = ret[n].in.wasQCM
            /\ ret[m].in.hintsUsed <= ret[n].in.hintsUsed)
           => ret[m].out.points >= ret[n].out.points
    /\ \A n \in 1..Len(ret) :
           (ret[n].in.correct /\ ret[n].in.hintsUsed >= 0)
           => ret[n].out.points >= 10

\* C19 witness: two correct answers of the same mode, the first after 2
\* hints and the second after 4, where 100 - 30 * 4 is below the floor
C19_Witness ==
    /\ Len(ret) = 2
    /\ ret[1].in = [correct |-> TRUE, hintsUsed |-> 2, wasQCM |-> FALSE]
    /\ ret[2].in = [correct |-> TRUE, hintsUsed |-> 4, wasQCM |-> FALSE]
    /\ ret[1].out.points > ret[2].out.points
    /\ ret[2].out.points = 10

\* p = 100 - 30 * hintsUsed, halved and rounded to the nearest integer
\* (halves upwards) in multiple-choice mode
HalvedIfQCM(hintsUsed, wasQCM) ==
    IF ~wasQCM THEN 100 - 30 * hintsUsed
    ELSE IF (100 - 30 * hintsUsed) % 2 = 0 THEN (100 - 30 * hintsUsed) \div 2
    ELSE (100 - 30 * hintsUsed + 1) \div 2

\* C20: for a correct answer calculatePoints returns max(10, p), where p
\* is 100 - 30 * hintsUsed, halved and rounded when wasQCM is true; so
\* (true, 2, false) gives 40 and (true, 3, true) gives 10.
C20_PointsFormula ==
    \A n \in 1..Len(ret) :
        ret[n].in.correct =>
            /\ ret[n].out.correct
            /\ ret[n].out.points
                  = Max2(10, HalvedIfQCM(ret[n].in.hintsUsed, ret[n].in.wasQCM))
            /\ (ret[n].in.hintsUsed = 2 /\ ~ret[n].in.wasQCM)
               => ret[n].out.points = 40
            /\ (ret[n].in.hintsUsed = 3 /\ ret[n].in.wasQCM)
               => ret[n].out.points = 10

\* C20 witness: calculatePoints has returned 40 for (true, 2, false) and
\* 10 for (true, 3, true)
C20_Witness ==
    /\ Len(ret) = 2
    /\ ret[1].in = [correct |-> TRUE, hintsUsed |-> 2, wasQCM |-> FALSE]
    /\ ret[1].out.points = 40
    /\ ret[2].in = [correct |-> TRUE, hintsUsed |-> 3, wasQCM |-> TRUE]
    /\ ret[2].out.points = 10

\* the BCE marker after a number, in lower case, as the texts write it
BceMarkerForms ==
    { <<" ","a","v","."," ","j",".","-","c">>, <<" ","a","v"," ","j",".","-","c">>, <<"a","v","."," ","j","c">>, <<" ","a","v","a","n","t"," ","j",".","-","c">> }

\* a number of d digits stands at s in t and a BCE marker follows it
BceNumberAt(t, s, d) ==
    /\ s + d - 1 <= Len(t)
    /\ \A j \in 0..(d - 1) : IsDigit(t[s + j])
    /\ \E f \in BceMarkerForms : MatchAtI(t, f, s + d)

\* the first position of t where a number of 1 to 4 digits followed by a
\* BCE marker starts, 0 when there is none
FirstBceAt(t) ==
    MinOr0({s \in 1..Len(t) : \E d \in 1..4 : BceNumberAt(t, s, d)})

\* the number that starts at s, s being such a position
BceNumberFrom(t, s) ==
    parseInt(SubSeq(t, s, s + (CHOOSE d \in 1..4 : BceNumberAt(t, s, d)) - 1))

\* the text of the call of extractYear holds an explicit BCE year
HasBceYear == ret # Null /\ FirstBceAt(args[1]) # 0

\* C23 as stated: for every text that holds a number of 1 to 4 digits
\* followed by the BCE marker, extractYear returns a negative integer, the
\* negation of the first such number, whatever else the text holds.
C23_BceYearNegative ==
    HasBceYear =>
        /\ ret[1] = Some(-BceNumberFrom(args[1], FirstBceAt(args[1])))
        /\ ret[1][1] < 0

\* C23 amended: for every text that holds a number of 1 to 4 digits
\* followed by the BCE marker, extractYear returns the negation of the
\* first such number, whatever else the text holds; it is negative when
\* the number is not 0, and 0 when the number is 0.
C23_BceYearNegated ==
    HasBceYear =>
        /\ ret[1] = Some(-BceNumberFrom(args[1], FirstBceAt(args[1])))
        /\ (BceNumberFrom(args[1], FirstBceAt(args[1])) # 0) => ret[1][1] < 0
        /\ (BceNumberFrom(args[1], FirstBceAt(args[1])) = 0) => ret[1][1] = 0

\* C23 witness: extractYear has returned -753 for a text that holds a
\* century and then the number 753, itself between 100 and 2025, followed
\* by the BCE marker
C23_Witness ==
    /\ HasBceYear
    /\ YearNumbers(args[1]) # {}
    /\ FirstBceAt(args[1]) > 1
    /\ extractCenturyYear(args[1]) # Null
    /\ ret[1] = Some(-753)

\* what follows the numeral of a century, in lower case
CenturyOrdinalForms == { <<"e"," ","s","i","è","c","l","e">>, <<"e"," "," ","s","i","è","c","l","e">>, <<"è","m","e"," ","s","i","è","c","l","e">> }

\* the ordinal forms of a numeral: e for a Roman numeral, e or ème for an
\* Arabic one
OrdinalFormsOf(num) ==
    IF IsDigit(num[1]) THEN CenturyOrdinalForms
    ELSE {o \in CenturyOrdinalForms : o[1] = "e"}

\* the century numeral num followed by ord stands at s in t, at a word
\* boundary
CenturyAt(t, s, num, ord) ==
    WordBoundary(t, s) /\ MatchAtI(t, toLowerCase(num) \o ord, s)

\* a BCE marker follows the century that stands at s
CenturyMarked(t, s, num, ord) ==
    \E f \in BceMarkerForms : MatchAtI(t, f, s + Len(num) + Len(ord))

\* the text of the call of extractYear holds no BCE year and no number of
\* 3 or 4 digits between 100 and 2025
NoExplicitYear ==
    /\ ret # Null
    /\ FirstBceAt(args[1]) = 0
    /\ \A y \in YearNumbers(args[1]) : y < 100 \/ y > 2025

\* the midpoint of century n, negated when marked
CenturyMidpoint(n, marked) == IF marked THEN -(n * 100 - 50) ELSE n * 100 - 50

\* C24 as stated: for a text with no BCE year and no number of 3 or 4
\* digits between 100 and 2025, a century written as a Roman numeral I to
\* XXI or as an Arabic ordinal 1 to 21 followed by siècle makes extractYear
\* return century * 100 - 50, negated when the BCE marker follows the
\* century, in Roman and in Arabic notation alike.
C24_CenturyMidpoint ==
    NoExplicitYear =>
        \A n \in 1..21 : \A num \in {ROMAN_TO_NUM[n], NatToText(n)} :
            \A ord \in OrdinalFormsOf(num) : \A s \in 1..Len(args[1]) :
                CenturyAt(args[1], s, num, ord)
                => ret[1] = Some(CenturyMidpoint(
                                     n, CenturyMarked(args[1], s, num, ord)))

\* every geosearch and every keywordSearch of the invocation c has settled
SearchesSettled(c) ==
    /\ Len(c.geoRes) = Len(c.newPoints)
    /\ Len(c.kwRes) = Len(KEYWORD_SEARCHES)
    /\ c.kwPending = Null

\* every request of fetchExtracts and fetchLangCounts of c has settled
FetchesSettled(c) ==
    /\ c.extDone = Len(Chunks(c.geoResults))
    /\ c.langDone = Len(Chunks(c.geoResults))

\* the requests for extracts and language links of c are out or settled
FetchesIssued(c) == c.pc = "phase2" \/ c.extDone > 0 \/ c.langDone > 0

\* C26: within one invocation of fetchWikiEvents, the requests for
\* extracts and language links are issued only when every geosearch and
\* every keyword search of the invocation has settled, and a candidate is
\* scored or written to articleCache only in a step of an invocation whose
\* requests for extracts and language links have all settled.
C26_PhasesInOrder ==
    [][/\ \A i \in Procs :
              FetchesIssued(calls'[i]) => SearchesSettled(calls[i])
       /\ (articleCache' # articleCache \/ scoredN' # scoredN
           \/ writes' # writes)
          => \E i \in Procs :
                 /\ ScoreStep(i)
                 /\ SearchesSettled(calls[i])
                 /\ FetchesSettled(calls[i])
                 /\ calls[i].geoResults # <<>>]_vars

\* C26 witness: an invocation has scored candidates and returned some,
\* after 5 geosearches, the keyword searches with at least one coordinates
\* request, and the requests for extracts and language links
C26_Witness ==
    \E i \in Procs :
        /\ calls[i].pc = "done"
        /\ Len(calls[i].newPoints) = 5
        /\ SearchesSettled(calls[i])
        /\ Len(Chunks(calls[i].geoResults)) >= 1
        /\ FetchesSettled(calls[i])
        /\ calls[i].nreq > 5 + Len(KEYWORD_SEARCHES)
                           + 2 * Len(Chunks(calls[i].geoResults))
        /\ calls[i].result # <<>>

\* the article p is in a list a keywordSearch of the invocation c returned
InKeywordResult(c, p) == \E k \in 1..Len(c.kwRes) : p \in Range(c.kwRes[k])

\* the article p is in a list a geosearch of the invocation c returned
InGeoResult(c, p) == \E k \in 1..Len(c.geoRes) : p \in Range(c.geoRes[k])

\* C28: an event returned by fetchWikiEvents has isIncontournable = true
\* if and only if its article is in the list that at least one
\* keywordSearch of the same invocation returned, also when a geosearch of
\* that invocation returned the article too.
C28_IncontournableIffKeyword ==
    \A i \in Procs :
        calls[i].pc = "done" =>
            \A k \in 1..Len(calls[i].result) :
                calls[i].result[k].isIncontournable
                    <=> InKeywordResult(calls[i], calls[i].result[k].id)

\* C28 witness: an invocation has returned an event with isIncontournable
\* = true whose article both a geosearch and a keywordSearch of it returned,
\* and an invocation has returned an event with isIncontournable = false
\* that only a geosearch returned
C28_Witness ==
    /\ \E i \in Procs :
           /\ calls[i].pc = "done"
           /\ \E k \in 1..Len(calls[i].result) :
                  /\ calls[i].result[k].isIncontournable
                  /\ InGeoResult(calls[i], calls[i].result[k].id)
                  /\ InKeywordResult(calls[i], calls[i].result[k].id)
    /\ \E j \in Procs :
           /\ calls[j].pc = "done"
           /\ \E k \in 1..Len(calls[j].result) :
                  /\ ~calls[j].result[k].isIncontournable
                  /\ InGeoResult(calls[j], calls[j].result[k].id)
                  /\ ~InKeywordResult(calls[j], calls[j].result[k].id)

\* candidate p of the done invocation c was accepted and kept by the loop
\* of c but is not in the list c returned: the truncation to MAX_RESULTS
\* removed it
CutByTruncation(c, p) ==
    /\ c.pc = "done"
    /\ p \in Range(c.geoResults)
    /\ ~Dropped(c, p)
    /\ p \notin Range(Ids(c.result))

\* C30: in calls that do not overlap, an event that an invocation accepted
\* and the truncation to the first 30 removed from its result is stored in
\* articleCache as an event (not as a tombstone), and no invocation, that
\* one or a later one, has it in its returned list or takes it again as a
\* candidate.
C30_CutEventNeverReturned ==
    \A i \in Procs : \A p \in Range(calls[i].geoResults) :
        CutByTruncation(calls[i], p) =>
            /\ p \in DOMAIN articleCache
            /\ articleCache[p] # Null
            /\ articleCache[p][1].id = p
            /\ \A j \in Procs :
                   /\ p \notin Range(Ids(calls[j].result))
                   /\ j # i => p \notin Range(calls[j].geoResults)

\* C30 witness: the first call accepted more than 30 candidates and cut
\* one; the second call, made after the first returned, has returned too,
\* and its searches brought the cut article again
C30_Witness ==
    /\ calls[1].pc = "done"
    /\ calls[2].pc = "done"
    /\ Len(calls[1].result) = MAX_RESULTS
    /\ \E p \in Found(calls[2]) :
           /\ CutByTruncation(calls[1], p)
           /\ articleCache[p] # Null

\* invocation i has been called and has not returned
Pending(i) == calls[i].pc \in {"phase1", "phase2"}

\* every request of invocation i eventually completes
OwnRequestsComplete(i) == WF_vars(RequestCompletes(i))

\* C29: an invocation whose own requests all eventually complete, with a
\* response or with a failure, eventually returns, whether or not the
\* requests of the other invocations ever complete.
C29_EventuallyReturns ==
    \A i \in Procs :
        OwnRequestsComplete(i) => (Pending(i) ~> calls[i].pc = "done")

\* C29 witness: the second invocation has gone through both phases and
\* returned events while the first is still waiting for its searches
C29_Witness ==
    /\ calls[1].pc = "phase1"
    /\ calls[1].geoRes = <<>>
    /\ calls[2].pc = "done"
    /\ calls[2].result # <<>>
    /\ calls[2].extDone > 0
    /\ calls[2].langDone > 0

\* C27 as stated: cleanTitle removes every prefix formatTitle can add: for
\* every raw title, year and extract, cleanTitle(formatTitle(rawTitle, year,
\* extract)) is the trimmed raw title.
C27_CleanTitleUndoesFormatTitle ==
    ret # Null => ret[1].clean = trim(args[1].rawTitle)

\* the number of positions of the list s that hold x
Occurrences(s, x) == Cardinality({k \in 1..Len(s) : s[k] = x})

\* C21: for every event, every pool (the empty pool and pools of entries
\* with the event's title included) and every outcome of the shuffles, the
\* options prepareQuizQuestion returns are 4 titles, no two of them equal,
\* and cleanTitle(event.title) is exactly one of them.
C21_FourDistinctOptions ==
    (ret # Null /\ ret[1].options # Null) =>
        /\ Len(ret[1].options[1]) = 4
        /\ \A j, k \in 1..Len(ret[1].options[1]) :
               ret[1].options[1][j] = ret[1].options[1][k] => j = k
        /\ Occurrences(ret[1].options[1], cleanTitle(args[1].event.title)) = 1

\* C21 witness: the event to guess carries a title of the generic list,
\* the pool holds only the event itself, and the question has its options:
\* the event's title, not in first place, and three generic titles
C21_Witness ==
    /\ ret # Null
    /\ ret[1].options # Null
    /\ args[1].event.title = genericFallbacks[2]
    /\ args[1].pool = <<args[1].event>>
    /\ ret[1].shuffled = <<>>
    /\ ret[1].options[1][1] # cleanTitle(args[1].event.title)
    /\ Range(ret[1].options[1]) \ {cleanTitle(args[1].event.title)}
          \subseteq Range(genericFallbacks)

\* generateDecoys has returned and prepareQuizQuestion is at line 254
GenerateDecoysReturned == ret # Null /\ ret[1].options = Null

\* the entries generateDecoys took its decoys from, in the call that
\* returned ret
DecoyEntries ==
    TakenEntries(ret[1].shuffled, TitleKey(args[1].event.title), 3)

\* the keys of the titles of the entries of the pool that satisfy ok and
\* are eligible: another id than the event's and another key
EligibleKeys(ok(_)) ==
    {TitleKey(args[1].pool[k].title) : k \in
        {j \in 1..Len(args[1].pool) :
            /\ ok(args[1].pool[j])
            /\ args[1].pool[j].id # args[1].event.id
            /\ TitleKey(args[1].pool[j].title) # TitleKey(args[1].event.title)}}

SameCategoryAsEvent(e) == e.category = args[1].event.category

AnyEntry(e) == TRUE

\* the decoys are never the event's title, compared case-insensitively
\* after the cleaning of the prefix
DecoysAvoidCorrectTitle ==
    \A k \in 1..Len(ret[1].decoys) :
        toLowerCase(ret[1].decoys[k]) # TitleKey(args[1].event.title)

\* an entry of another category is used only when the entries of the
\* event's category have fewer than 3 distinct eligible titles, and a
\* generic title only when the whole pool has fewer than 3
DecoysPreferSameCategory ==
    /\ (\E k \in 1..Len(DecoyEntries) : ~SameCategoryAsEvent(DecoyEntries[k]))
          => Cardinality(EligibleKeys(SameCategoryAsEvent)) < 3
    /\ Len(DecoyEntries) < Len(ret[1].decoys)
          => Cardinality(EligibleKeys(AnyEntry)) < 3

\* C25 as stated: generateDecoys never returns the event's title nor a
\* title of an entry of the pool that has the event's id; it uses an entry
\* of another category only when fewer than 3 distinct eligible titles of
\* the event's category exist, and a generic title only when the whole pool
\* has fewer than 3 distinct eligible titles.
C25_NoTitleOfCorrectId ==
    GenerateDecoysReturned =>
        /\ DecoysAvoidCorrectTitle
        /\ \A k \in 1..Len(ret[1].decoys) : \A j \in 1..Len(args[1].pool) :
               args[1].pool[j].id = args[1].event.id
                  => ret[1].decoys[k] # cleanTitle(args[1].pool[j].title)
        /\ DecoysPreferSameCategory

\* C25 amended: generateDecoys never returns the event's title and never
\* takes a decoy from an entry of the pool that has the event's id (the
\* title of such an entry can still be returned, taken from another entry
\* or from the generic list); the order of preference is as stated.
C25_NoEntryOfCorrectId ==
    GenerateDecoysReturned =>
        /\ DecoysAvoidCorrectTitle
        /\ \A k \in 1..Len(DecoyEntries) :
               DecoyEntries[k].id # args[1].event.id
        /\ DecoysPreferSameCategory

\* C25 witness: generateDecoys has returned one title of the event's
\* category, one of another category and one generic title, from a pool
\* that also holds the event itself, an entry with the event's id under
\* another title and an entry with the event's title in another case
C25_Witness ==
    /\ GenerateDecoysReturned
    /\ Len(DecoyEntries) = 2
    /\ SameCategoryAsEvent(DecoyEntries[1])
    /\ ~SameCategoryAsEvent(DecoyEntries[2])
    /\ ret[1].decoys[3] \in Range(genericFallbacks)
    /\ \E j \in 1..Len(args[1].pool) : args[1].pool[j] = args[1].event
    /\ \E j \in 1..Len(args[1].pool) :
           /\ args[1].pool[j].id = args[1].event.id
           /\ TitleKey(args[1].pool[j].title) # TitleKey(args[1].event.title)
    /\ \E j \in 1..Len(args[1].pool) :
           /\ args[1].pool[j].id # args[1].event.id
           /\ TitleKey(args[1].pool[j].title) = TitleKey(args[1].event.title)

\* C22 as stated: masking is idempotent: for every description d and title
\* t, maskDescription(maskDescription(d, t), t) is maskDescription(d, t);
\* the second masking finds nothing to mask, neither a mask token nor an
\* occurrence the first masking created.
C22_MaskingIdempotent ==
    ret # Null => ret[1].twice = ret[1].once

============================================================================
